---- MODULE Spec2Model ----
(***************************************************************************)
(* Server health collection pipeline of tg-server-health-bot:              *)
(*   core/ssh_manager.py    execution transport (remote and local)         *)
(*   core/health_checker.py command catalog, parsers, classifier, analyzer *)
(*   config.py              threshold table                                *)
(*                                                                         *)
(* Text is modelled by TLA+ strings and taken apart with Len and SubSeq,   *)
(* so every parser below computes on the characters of the command output. *)
(* Floating point numbers are modelled by exact rationals [n, d].          *)
(***************************************************************************)
EXTENDS Integers, Sequences, FiniteSets, TLC

None == "None"

(***************************************************************************)
(* Python str primitives                                                   *)
(***************************************************************************)
CharAt(s, i) == SubSeq(s, i, i)

IsSpace(c) == c \in {" ", "\t", "\n"}

IsDigit(c) == c \in {"0", "1", "2", "3", "4", "5", "6", "7", "8", "9"}

DigitVal(c) ==
  CASE c = "0" -> 0 [] c = "1" -> 1 [] c = "2" -> 2 [] c = "3" -> 3
    [] c = "4" -> 4 [] c = "5" -> 5 [] c = "6" -> 6 [] c = "7" -> 7
    [] c = "8" -> 8 [] c = "9" -> 9

\* first position from i on whose character is not in chars, Len(s) + 1 if none
RECURSIVE SkipSet(_, _, _)
SkipSet(s, chars, i) ==
  IF i <= Len(s) /\ CharAt(s, i) \in chars THEN SkipSet(s, chars, i + 1) ELSE i

\* last position up to i whose character is not in chars, 0 if none
RECURSIVE SkipSetBack(_, _, _)
SkipSetBack(s, chars, i) ==
  IF i >= 1 /\ CharAt(s, i) \in chars THEN SkipSetBack(s, chars, i - 1) ELSE i

\* str.lstrip(chars), str.rstrip(chars), str.strip(chars)
LStripSet(s, chars) == SubSeq(s, SkipSet(s, chars, 1), Len(s))
RStripSet(s, chars) == SubSeq(s, 1, SkipSetBack(s, chars, Len(s)))
StripSet(s, chars) == RStripSet(LStripSet(s, chars), chars)

Whitespace == {" ", "\t", "\n"}

\* str.strip()
Strip(s) == StripSet(s, Whitespace)

\* position of the first occurrence of the one-character separator from
\* position i on, 0 when there is none
RECURSIVE FindChar(_, _, _)
FindChar(s, sep, i) ==
  IF i > Len(s) THEN 0
  ELSE IF CharAt(s, i) = sep THEN i
  ELSE FindChar(s, sep, i + 1)

RECURSIVE SplitSepFrom(_, _, _)
SplitSepFrom(s, sep, i) ==
  LET Cut(p) == IF p = 0 THEN <<SubSeq(s, i, Len(s))>>
                ELSE <<SubSeq(s, i, p - 1)>> \o SplitSepFrom(s, sep, p + 1)
  IN Cut(FindChar(s, sep, i))

\* str.split(sep) for a one-character separator: empty fields are kept
SplitSep(s, sep) == SplitSepFrom(s, sep, 1)

\* end of the run of non-blank characters that starts at position i
RECURSIVE WordEnd(_, _)
WordEnd(s, i) ==
  IF i + 1 <= Len(s) /\ ~IsSpace(CharAt(s, i + 1)) THEN WordEnd(s, i + 1) ELSE i

RECURSIVE SplitWsFrom(_, _, _)
SplitWsFrom(s, i, maxsplit) ==
  LET Field(b) ==
        IF b > Len(s) THEN <<>>
        ELSE IF maxsplit = 0 THEN <<RStripSet(SubSeq(s, b, Len(s)), Whitespace)>>
        ELSE <<SubSeq(s, b, WordEnd(s, b))>> \o SplitWsFrom(s, WordEnd(s, b) + 1, maxsplit - 1)
  IN Field(SkipSet(s, Whitespace, i))

\* str.split(None, maxsplit): runs of blanks separate, no empty fields;
\* after maxsplit splits the remainder is one field (maxsplit < 0: no limit)
SplitWsMax(s, maxsplit) == SplitWsFrom(s, 1, maxsplit)

\* str.split()
SplitWs(s) == SplitWsMax(s, -1)

\* position of the first occurrence of sub in s from position i on, else 0
RECURSIVE FindSub(_, _, _)
FindSub(s, sub, i) ==
  IF i + Len(sub) - 1 > Len(s) THEN 0
  ELSE IF SubSeq(s, i, i + Len(sub) - 1) = sub THEN i
  ELSE FindSub(s, sub, i + 1)

\* sub in s
Contains(s, sub) == FindSub(s, sub, 1) # 0

\* str.replace(sub, ""), sub non-empty
RECURSIVE Remove(_, _)
Remove(s, sub) ==
  LET Cut(p) == IF p = 0 THEN s
                ELSE SubSeq(s, 1, p - 1) \o Remove(SubSeq(s, p + Len(sub), Len(s)), sub)
  IN Cut(FindSub(s, sub, 1))

UpperChar(c) ==
  CASE c = "a" -> "A" [] c = "b" -> "B" [] c = "c" -> "C" [] c = "d" -> "D"
    [] c = "e" -> "E" [] c = "f" -> "F" [] c = "g" -> "G" [] c = "h" -> "H"
    [] c = "i" -> "I" [] c = "j" -> "J" [] c = "k" -> "K" [] c = "l" -> "L"
    [] c = "m" -> "M" [] c = "n" -> "N" [] c = "o" -> "O" [] c = "p" -> "P"
    [] c = "q" -> "Q" [] c = "r" -> "R" [] c = "s" -> "S" [] c = "t" -> "T"
    [] c = "u" -> "U" [] c = "v" -> "V" [] c = "w" -> "W" [] c = "x" -> "X"
    [] c = "y" -> "Y" [] c = "z" -> "Z" [] OTHER -> c

\* str.upper()
RECURSIVE Upper(_)
Upper(s) ==
  IF Len(s) = 0 THEN s ELSE UpperChar(CharAt(s, 1)) \o Upper(SubSeq(s, 2, Len(s)))

(***************************************************************************)
(* Numbers.  A float is an exact rational [n |-> numerator, d |-> positive *)
(* denominator]; a conversion that raises ValueError yields ValueError.    *)
(***************************************************************************)
ValueError == [exc |-> "ValueError"]
IndexError == [exc |-> "IndexError"]
ZeroDivisionError == [exc |-> "ZeroDivisionError"]

IsExc(x) == "exc" \in DOMAIN x

Rat(n, d) == [n |-> n, d |-> d]

RECURSIVE GCD(_, _)
GCD(a, b) == IF b = 0 THEN a ELSE GCD(b, a % b)

Abs(k) == IF k < 0 THEN 0 - k ELSE k

\* the same number in lowest terms
Norm(x) == Rat(x.n \div GCD(Abs(x.n), x.d), x.d \div GCD(Abs(x.n), x.d))

RatInt(k) == Rat(k, 1)
Floor(x) == x.n \div x.d
\* x >= k and x = k for an integer k
RatGEInt(x, k) == Floor(x) >= k
RatEqInt(x, k) == x.n % x.d = 0 /\ Floor(x) = k
RatAdd(a, b) ==
  LET Sum(g) == Norm(Rat(a.n * (b.d \div g) + b.n * (a.d \div g), (a.d \div g) * b.d))
  IN Sum(GCD(a.d, b.d))
RatMulInt(a, k) == Norm(Rat(a.n * k, a.d))
RatDivInt(a, k) ==
  LET Div(b) == IF b.n = 0 THEN b ELSE Norm(Rat(b.n, b.d * k))
  IN Div(Norm(a))

RECURSIVE DigitsFrom(_, _)
DigitsFrom(s, i) == i > Len(s) \/ (IsDigit(CharAt(s, i)) /\ DigitsFrom(s, i + 1))

\* every character is a digit
AllDigits(s) == DigitsFrom(s, 1)

RECURSIVE DigitsValTo(_, _)
DigitsValTo(s, i) ==
  IF i = 0 THEN 0 ELSE DigitsValTo(s, i - 1) * 10 + DigitVal(CharAt(s, i))

\* value of a string of digits
DigitsVal(s) == DigitsValTo(s, Len(s))

RECURSIVE Pow10(_)
Pow10(k) == IF k = 0 THEN 1 ELSE 10 * Pow10(k - 1)

\* the sign of a numeral and the text after it
HasSign(t) == Len(t) > 0 /\ CharAt(t, 1) \in {"+", "-"}
SignOf(t) == IF Len(t) > 0 /\ CharAt(t, 1) = "-" THEN -1 ELSE 1
Unsigned(t) == IF HasSign(t) THEN SubSeq(t, 2, Len(t)) ELSE t

\* int(s): blanks around, an optional sign, then one or more digits
PyInt(s) ==
  LET Digits(sign, body) ==
        IF Len(body) = 0 \/ ~AllDigits(body) THEN ValueError
        ELSE [int |-> sign * DigitsVal(body)]
      Numeral(t) == Digits(SignOf(t), Unsigned(t))
  IN Numeral(Strip(s))

\* float(s): blanks around, an optional sign, digits with at most one point
\* and at least one digit (decimal notation only)
PyFloat(s) ==
  LET Digits(sign, ip, fp) ==
        IF Len(ip) + Len(fp) = 0 \/ ~AllDigits(ip) \/ ~AllDigits(fp) THEN ValueError
        ELSE Rat(sign * (DigitsVal(ip) * Pow10(Len(fp)) + DigitsVal(fp)), Pow10(Len(fp)))
      Point(sign, body, p) ==
        IF p = 0 THEN Digits(sign, body, "")
        ELSE Digits(sign, SubSeq(body, 1, p - 1), SubSeq(body, p + 1, Len(body)))
      Body(sign, body) == Point(sign, body, FindChar(body, ".", 1))
      Numeral(t) == Body(SignOf(t), Unsigned(t))
  IN Numeral(Strip(s))

(***************************************************************************)
(* config.py: the percentage threshold table                               *)
(***************************************************************************)
Kinds == {"cpu", "ram", "disk", "swap"}

\* Settings.thresholds under the default field values
DefaultThresholds ==
  [cpu  |-> [warning |-> 70, critical |-> 90],
   ram  |-> [warning |-> 70, critical |-> 85],
   disk |-> [warning |-> 70, critical |-> 85],
   swap |-> [warning |-> 30, critical |-> 50]]

\* a table as the environment variables may set it (any integers are accepted)
CustomThresholds ==
  [cpu  |-> [warning |-> 50, critical |-> 50],
   ram  |-> [warning |-> 40, critical |-> 60],
   disk |-> [warning |-> 90, critical |-> 80],
   swap |-> [warning |-> 10, critical |-> 95]]

SettingsChoices == {DefaultThresholds, CustomThresholds}

\* the pair used for a kind the table does not have
FallbackPair == [warning |-> 70, critical |-> 90]

(***************************************************************************)
(* HealthChecker._get_status                                               *)
(***************************************************************************)
ThresholdOf(table, metric_type) ==
  IF metric_type \in DOMAIN table THEN table[metric_type] ELSE FallbackPair

_get_status_strict(table, value, metric_type) ==
  LET th == ThresholdOf(table, metric_type)
  IN IF RatGEInt(value, th.critical) /\ ~RatEqInt(value, th.critical) THEN "critical"
     ELSE IF RatGEInt(value, th.warning) THEN "warning"
     ELSE "ok"

_get_status(table, value, metric_type) ==
  LET th == ThresholdOf(table, metric_type)
  IN IF RatGEInt(value, th.critical) THEN "critical"
     ELSE IF RatGEInt(value, th.warning) THEN "warning"
     ELSE "ok"

(***************************************************************************)
(* core/ssh_manager.py: SSHResult and the two execute variants.            *)
(* What the environment does with one command is an event:                 *)
(*   ran        the command ended; exit is its exit status (NoExit when the *)
(*              remote side reports none)                                  *)
(*   timeout    asyncio.timeout expired (connected: a session was open)    *)
(*   ssh_error  asyncssh.Error while connecting or authenticating          *)
(*   exception  any other Exception                                        *)
(***************************************************************************)
SSHResult(success, stdout, stderr, exit_code, error) ==
  [success |-> success, stdout |-> stdout, stderr |-> stderr,
   exit_code |-> exit_code, error |-> error]

\* an exit status is <<n>>, or <<>> when there is none (Python None)
NoExit == <<>>
ExitOf(n) == <<n>>

RanEvent(exit, stdout, stderr) ==
  [kind |-> "ran", exit |-> exit, stdout |-> stdout, stderr |-> stderr, connected |-> TRUE]

FailEvent(kind, connected) ==
  [kind |-> kind, exit |-> NoExit, stdout |-> "", stderr |-> "", connected |-> connected]

\* x or 0
OrZero(x) == IF x = NoExit THEN 0 ELSE x[1]

\* x or ""
OrEmpty(x) == IF x = None THEN "" ELSE x

\* SSHManager.execute
RemoteExecute(ev) ==
  CASE ev.kind = "ran" ->
         SSHResult(ev.exit = ExitOf(0), OrEmpty(ev.stdout), OrEmpty(ev.stderr), OrZero(ev.exit), None)
    [] ev.kind = "timeout" ->
         SSHResult(FALSE, "", "", -1, "Connection timeout (30s)")
    [] ev.kind = "ssh_error" ->
         SSHResult(FALSE, "", "", -1, "SSH error: Permission denied")
    [] OTHER ->
         SSHResult(FALSE, "", "", -1, "Unexpected error: Connection refused")

\* LocalSSHManager.execute
LocalExecute(ev) ==
  CASE ev.kind = "ran" ->
         SSHResult(ev.exit = ExitOf(0), ev.stdout, ev.stderr, OrZero(ev.exit), None)
    [] ev.kind = "timeout" ->
         SSHResult(FALSE, "", "", -1, "Command timeout (30s)")
    [] OTHER ->
         SSHResult(FALSE, "", "", -1, "Execution error: Too many open files")

Execute_timeout_unreported(kind, ev) ==
  IF ev.kind = "timeout" THEN SSHResult(FALSE, "", "", -1, None)
  ELSE IF kind = "remote" THEN RemoteExecute(ev) ELSE LocalExecute(ev)

Execute(kind, ev) == IF kind = "remote" THEN RemoteExecute(ev) ELSE LocalExecute(ev)

\* asyncssh.connect calls that produced a session while one command ran
SessionsOpened(kind, ev) == IF kind = "remote" /\ ev.connected THEN 1 ELSE 0

(***************************************************************************)
(* core/health_checker.py: Metric and the parsers.  A parser returns a     *)
(* record; the record [exc |-> ...] stands for the exception it raises.    *)
(***************************************************************************)
Metric(name, value, unit, status, details) ==
  [name |-> name, value |-> value, unit |-> unit, status |-> status, details |-> details]

\* Optional[Metric] = None
NoMetric == [name |-> None]

\* details texts: a literal, or the operands of a formatted text
Text(t) == [text |-> t]
UsedOfTotal(used, total) == [used_bytes |-> used, total_bytes |-> total]

\* round(x, digits): to the nearest multiple of 10^-digits, ties to even
Round(x, digits) ==
  LET Nearest(num, den) ==
        IF num % den = 0 /\ (num \div den) % 2 = 1 THEN (num \div den) - 1 ELSE num \div den
  IN Rat(Nearest(2 * x.n * Pow10(digits) + x.d, 2 * x.d), Pow10(digits))

Percent_of_free(used, total) == Rat((total - used) * 100, total)

\* (used / total) * 100
Percent(used, total) == Rat(used * 100, total)

\* one iteration of the loop of _parse_memory over the lines of the output
MemoryLine(table, acc, line) ==
  LET Usage(name, kind, used, total, pct) ==
        Metric(name, Round(pct, 1), "%", _get_status(table, pct, kind),
               UsedOfTotal(used, total))
      Fields(tag, total, used) ==
        IF IsExc(total) THEN total
        ELSE IF IsExc(used) THEN used
        ELSE IF total.int <= 0 THEN acc
        ELSE IF tag = "Mem:"
             THEN [acc EXCEPT !.ram = Usage("RAM", "ram", used.int, total.int,
                                            Percent(used.int, total.int))]
             ELSE [acc EXCEPT !.swap = Usage("Swap", "swap", used.int, total.int,
                                             Percent(used.int, total.int))]
      Row(parts) ==
        IF Len(parts) < 3 \/ parts[1] \notin {"Mem:", "Swap:"} THEN acc
        ELSE Fields(parts[1], PyInt(parts[2]), PyInt(parts[3]))
  IN Row(SplitWs(line))

RECURSIVE MemoryLoop(_, _, _, _)
MemoryLoop(table, acc, lines, i) ==
  IF i > Len(lines) \/ IsExc(acc) THEN acc
  ELSE MemoryLoop(table, MemoryLine(table, acc, lines[i]), lines, i + 1)

\* HealthChecker._parse_memory
_parse_memory(table, output) ==
  MemoryLoop(table,
             [ram |-> Metric("RAM", RatInt(0), "%", "error", Text("Failed to parse")),
              swap |-> Metric("Swap", RatInt(0), "%", "ok", Text("No swap"))],
             SplitSep(Strip(output), "\n"), 1)

\* one iteration of the loop of _parse_disk
DiskLine(table, acc, line) ==
  LET Fields(mount, total, used, pct) ==
        IF IsExc(total) THEN total
        ELSE IF IsExc(used) THEN used
        ELSE IF IsExc(pct) THEN acc
        ELSE [acc EXCEPT !.disks = Append(@, Metric("Disk " \o mount, pct, "%",
                                                    _get_status(table, pct, "disk"),
                                                    UsedOfTotal(used.int, total.int)))]
      Row(parts) ==
        IF Len(parts) < 5 THEN acc
        ELSE Fields(parts[1], PyInt(parts[2]), PyInt(parts[3]),
                    PyFloat(RStripSet(parts[5], {"%"})))
  IN Row(SplitWs(line))

RECURSIVE DiskLoop(_, _, _, _)
DiskLoop(table, acc, lines, i) ==
  IF i > Len(lines) \/ IsExc(acc) THEN acc
  ELSE DiskLoop(table, DiskLine(table, acc, lines[i]), lines, i + 1)

\* HealthChecker._parse_disk
_parse_disk(table, output) ==
  DiskLoop(table, [disks |-> <<>>], SplitSep(Strip(output), "\n"), 1)

\* bound on the displayed command text
CommandWidth == 50

\* s[:n]
Prefix(s, n) == IF Len(s) <= n THEN s ELSE SubSeq(s, 1, n)

ProcessInfo(pid, user, cpu, mem, command) ==
  [pid |-> pid, user |-> user, cpu |-> cpu, mem |-> mem, command |-> command]

\* one iteration of the loop of _parse_processes
ProcessLine(acc, line) ==
  LET Fields(user, pid, cpu, mem, command) ==
        IF IsExc(pid) \/ IsExc(cpu) \/ IsExc(mem) THEN acc
        ELSE [acc EXCEPT !.processes =
                Append(@, ProcessInfo(pid.int, user, cpu, mem, Prefix(command, CommandWidth)))]
      Row(parts) ==
        IF Len(parts) < 11 THEN acc
        ELSE Fields(parts[1], PyInt(parts[2]), PyFloat(parts[3]), PyFloat(parts[4]), parts[11])
  IN Row(SplitWsMax(line, 10))

RECURSIVE ProcessLoop(_, _, _)
ProcessLoop(acc, lines, i) ==
  IF i > Len(lines) THEN acc
  ELSE ProcessLoop(ProcessLine(acc, lines[i]), lines, i + 1)

\* HealthChecker._parse_processes
_parse_processes(output) ==
  ProcessLoop([processes |-> <<>>], SplitSep(Strip(output), "\n"), 1).processes

\* HealthChecker._parse_size_to_gb
_parse_size_to_gb(size_str) ==
  LET Scaled(value, divisor) ==
        IF IsExc(value) THEN RatInt(0) ELSE RatDivInt(value, divisor)
      Convert(t) ==
        IF Contains(t, "GB") THEN Scaled(PyFloat(Remove(t, "GB")), 1)
        ELSE IF Contains(t, "MB") THEN Scaled(PyFloat(Remove(t, "MB")), 1024)
        ELSE IF Contains(t, "KB") THEN Scaled(PyFloat(Remove(t, "KB")), 1024 * 1024)
        ELSE IF Contains(t, "B") THEN Scaled(PyFloat(Remove(t, "B")), 1024 * 1024 * 1024)
        ELSE Scaled(PyFloat(t), 1)
  IN Convert(Upper(Strip(size_str)))

\* fixed absolute pairs of the class
SESSION_WARNING == 10
SESSION_CRITICAL == 50
DOCKER_WARNING_GB == 5
DOCKER_CRITICAL_GB == 15
JOURNAL_WARNING_MB == 500
JOURNAL_CRITICAL_MB == 1000

FixedStatus_exclusive(value, warning, critical) ==
  IF RatGEInt(value, critical) /\ ~RatEqInt(value, critical) THEN "critical"
  ELSE IF RatGEInt(value, warning) /\ ~RatEqInt(value, warning) THEN "warning"
  ELSE "ok"

\* the if/elif/else on a fixed pair
FixedStatus(value, warning, critical) ==
  IF RatGEInt(value, critical) THEN "critical"
  ELSE IF RatGEInt(value, warning) THEN "warning"
  ELSE "ok"

\* one iteration of the loop of _parse_docker
DockerLine(acc, line) ==
  LET Sum(size_str, reclaim_str) ==
        [total_size_gb |-> RatAdd(acc.total_size_gb, _parse_size_to_gb(size_str)),
         reclaimable_gb |-> RatAdd(acc.reclaimable_gb, _parse_size_to_gb(reclaim_str))]
      First(size_str, words) ==
        IF Len(words) = 0 THEN IndexError ELSE Sum(size_str, words[1])
      Reclaim(size_str, reclaim_str) ==
        IF Len(reclaim_str) > 0 THEN First(size_str, SplitWs(reclaim_str))
        ELSE Sum(size_str, "0")
      Row(parts) ==
        IF Len(parts) < 2 THEN acc
        ELSE Reclaim(parts[2], IF Len(parts) > 2 THEN parts[3] ELSE "0")
  IN Row(SplitSep(line, "\t"))

RECURSIVE DockerLoop(_, _, _)
DockerLoop(acc, lines, i) ==
  IF i > Len(lines) \/ IsExc(acc) THEN acc
  ELSE DockerLoop(DockerLine(acc, lines[i]), lines, i + 1)

\* HealthChecker._parse_docker
_parse_docker(output) ==
  LET Total(sums) ==
        IF IsExc(sums) THEN sums
        ELSE [docker |->
                Metric("Docker", Round(sums.total_size_gb, 1), "GB",
                       FixedStatus(sums.total_size_gb, DOCKER_WARNING_GB, DOCKER_CRITICAL_GB),
                       [reclaimable_gb |-> sums.reclaimable_gb])]
  IN Total(DockerLoop([total_size_gb |-> RatInt(0), reclaimable_gb |-> RatInt(0)],
                      SplitSep(Strip(output), "\n"), 1))

\* re.search(r'([\d.]+)([KMGT]?)', s): the first maximal run of digits and
\* points and the unit letter that follows it; matched is FALSE without one
IsNumChar(c) == IsDigit(c) \/ c = "."

RECURSIVE FirstNumChar(_, _)
FirstNumChar(s, i) ==
  IF i > Len(s) THEN 0 ELSE IF IsNumChar(CharAt(s, i)) THEN i ELSE FirstNumChar(s, i + 1)

RECURSIVE NumRunEnd(_, _)
NumRunEnd(s, i) ==
  IF i + 1 <= Len(s) /\ IsNumChar(CharAt(s, i + 1)) THEN NumRunEnd(s, i + 1) ELSE i

SizeSearch(s) ==
  LET Unit(e) == IF e + 1 <= Len(s) /\ CharAt(s, e + 1) \in {"K", "M", "G", "T"}
                 THEN CharAt(s, e + 1) ELSE ""
      Run(b, e) == [matched |-> TRUE, number |-> SubSeq(s, b, e), unit |-> Unit(e)]
      From(b) == IF b = 0 THEN [matched |-> FALSE, number |-> "", unit |-> ""]
                 ELSE Run(b, NumRunEnd(s, b))
  IN From(FirstNumChar(s, 1))

\* HealthChecker._parse_journal
_parse_journal(output) ==
  LET Size(size_mb) ==
        [journal_size |->
           Metric("Journal", Round(size_mb, 0), "MB",
                  FixedStatus(size_mb, JOURNAL_WARNING_MB, JOURNAL_CRITICAL_MB),
                  [size_mb |-> size_mb])]
      Scale(value, unit) ==
        IF IsExc(value) THEN value
        ELSE IF unit = "G" THEN Size(RatMulInt(value, 1024))
        ELSE IF unit = "M" THEN Size(value)
        ELSE IF unit = "K" THEN Size(RatDivInt(value, 1024))
        ELSE Size(RatDivInt(value, 1024 * 1024))
      Match(match) ==
        IF match.matched THEN Scale(PyFloat(match.number), Upper(match.unit))
        ELSE Size(RatInt(0))
  IN Match(SizeSearch(Strip(output)))

(***************************************************************************)
(* HealthChecker.COMMANDS, in the order of the dict                        *)
(***************************************************************************)
CommandKeys ==
  <<"hostname", "uptime", "os_info", "cpu_cores", "load_avg", "memory", "disk",
    "top_cpu", "top_mem", "sessions", "docker", "journal">>

COMMANDS ==
  [hostname  |-> "hostname",
   uptime    |-> "uptime -p 2>/dev/null || uptime",
   os_info   |-> "cat /etc/os-release | grep -E '^(NAME|VERSION)=' | head -2",
   cpu_cores |-> "nproc",
   load_avg  |-> "cat /proc/loadavg",
   memory    |-> "free -b | grep -E '^(Mem|Swap):'",
   disk      |-> "df -B1 --output=target,size,used,avail,pcent | grep -E '^/'",
   top_cpu   |-> "ps aux --sort=-%cpu | head -6 | tail -5",
   top_mem   |-> "ps aux --sort=-%mem | head -6 | tail -5",
   sessions  |-> "who | wc -l",
   docker    |-> "docker system df --format '{{.Type}}\t{{.Size}}\t{{.Reclaimable}}' 2>/dev/null || echo 'NO_DOCKER'",
   journal   |-> "journalctl --disk-usage 2>/dev/null | grep -oP '[\\d.]+[KMGT]?' || echo '0'"]

\* list(self.COMMANDS.values())
CommandList == [i \in 1..Len(CommandKeys) |-> COMMANDS[CommandKeys[i]]]

(***************************************************************************)
(* HealthChecker._analyze_issues                                           *)
(***************************************************************************)
Issue(level, metric) == [level |-> level, about |-> metric.name, value |-> metric.value]
Recommendation(metric) == [about |-> metric.name]

Judge_warning_recommends(lists, metric) ==
  IF metric.status \in {"critical", "warning"}
  THEN [issues |-> Append(lists.issues, Issue(metric.status, metric)),
        recommendations |-> Append(lists.recommendations, Recommendation(metric))]
  ELSE lists

\* the if/elif of one metric: an issue at warning or critical, and a
\* recommendation at critical
Judge(lists, metric) ==
  IF metric.status = "critical"
  THEN [issues |-> Append(lists.issues, Issue("critical", metric)),
        recommendations |-> Append(lists.recommendations, Recommendation(metric))]
  ELSE IF metric.status = "warning"
  THEN [lists EXCEPT !.issues = Append(@, Issue("warning", metric))]
  ELSE lists

RECURSIVE JudgeAll(_, _, _)
JudgeAll(lists, metrics, i) ==
  IF i > Len(metrics) THEN lists
  ELSE JudgeAll(Judge(lists, metrics[i]), metrics, i + 1)

\* "if report.docker" / "if report.journal_size"
Present(m) == m # NoMetric
Optional(m) == IF Present(m) THEN <<m>> ELSE <<>>

EvaluationOrder_disks_first(report) ==
  report.disks \o <<report.cpu_load, report.ram, report.swap, report.sessions>>
    \o Optional(report.docker) \o Optional(report.journal_size)

\* the metrics in the order the analyzer visits them
EvaluationOrder(report) ==
  <<report.cpu_load, report.ram, report.swap>> \o report.disks
    \o <<report.sessions>> \o Optional(report.docker) \o Optional(report.journal_size)

Statuses_required_only(report) ==
  LET StatusOf(ms) == [i \in 1..Len(ms) |-> ms[i].status]
  IN StatusOf(<<report.cpu_load, report.ram, report.swap, report.sessions>> \o report.disks)

\* the list "statuses" of the analyzer
Statuses(report) ==
  LET StatusOf(ms) == [i \in 1..Len(ms) |-> ms[i].status]
  IN StatusOf(<<report.cpu_load, report.ram, report.swap, report.sessions>>
                \o Optional(report.docker) \o Optional(report.journal_size) \o report.disks)

Has(statuses, st) == \E i \in 1..Len(statuses) : statuses[i] = st

Precedence_error_first(statuses) ==
  IF Has(statuses, "critical") THEN "critical"
  ELSE IF Has(statuses, "error") THEN "error"
  ELSE IF Has(statuses, "warning") THEN "warning"
  ELSE "ok"

Precedence(statuses) ==
  IF Has(statuses, "critical") THEN "critical"
  ELSE IF Has(statuses, "warning") THEN "warning"
  ELSE IF Has(statuses, "error") THEN "error"
  ELSE "ok"

_analyze_issues(report) ==
  LET Judged(lists) ==
        [report EXCEPT !.issues = lists.issues,
                       !.recommendations = lists.recommendations,
                       !.overall_status = Precedence(Statuses(report))]
  IN Judged(JudgeAll([issues |-> report.issues,
                      recommendations |-> report.recommendations],
                     EvaluationOrder(report), 1))

(***************************************************************************)
(* HealthChecker.collect, from the result map on (the code after the       *)
(* await): the report, or [exc |-> ...] for the exception it propagates.   *)
(***************************************************************************)
\* "r = results.get(cmd)" followed by "if r and r.success"
Succeeded(results, key) ==
  COMMANDS[key] \in DOMAIN results /\ results[COMMANDS[key]].success

Stdout(results, key) == results[COMMANDS[key]].stdout

\* the report as constructed with its defaults
InitialReport_ok_defaults(server_name) ==
  [server_name |-> server_name,
   hostname |-> "unknown",
   uptime |-> "unknown",
   os_info |-> "unknown",
   overall_status |-> "ok",
   cpu_load |-> Metric("CPU Load", RatInt(0), "", "ok", Text("")),
   cpu_load_per_core |-> RatInt(0),
   ram |-> Metric("RAM", RatInt(0), "%", "ok", Text("")),
   swap |-> Metric("Swap", RatInt(0), "%", "ok", Text("")),
   disks |-> <<>>,
   sessions |-> Metric("Sessions", RatInt(0), "", "ok", Text("")),
   docker |-> NoMetric,
   journal_size |-> NoMetric,
   top_cpu_processes |-> <<>>,
   top_mem_processes |-> <<>>,
   issues |-> <<>>,
   recommendations |-> <<>>,
   errors |-> <<>>]

InitialReport(server_name) ==
  [server_name |-> server_name,
   hostname |-> "unknown",
   uptime |-> "unknown",
   os_info |-> "unknown",
   overall_status |-> "error",
   cpu_load |-> Metric("CPU Load", RatInt(0), "", "error", Text("")),
   cpu_load_per_core |-> RatInt(0),
   ram |-> Metric("RAM", RatInt(0), "%", "error", Text("")),
   swap |-> Metric("Swap", RatInt(0), "%", "ok", Text("")),
   disks |-> <<>>,
   sessions |-> Metric("Sessions", RatInt(0), "", "ok", Text("")),
   docker |-> NoMetric,
   journal_size |-> NoMetric,
   top_cpu_processes |-> <<>>,
   top_mem_processes |-> <<>>,
   issues |-> <<>>,
   recommendations |-> <<>>,
   errors |-> <<>>]

\* " ".join(words)
RECURSIVE Join(_, _)
Join(words, i) ==
  IF i > Len(words) THEN ""
  ELSE IF i = Len(words) THEN words[i]
  ELSE words[i] \o " " \o Join(words, i + 1)

\* the values of the NAME=/VERSION= lines
RECURSIVE OsParts(_, _)
OsParts(lines, i) ==
  IF i > Len(lines) THEN <<>>
  ELSE IF Contains(lines[i], "=")
       THEN <<StripSet(SplitSep(lines[i], "=")[2], {"\""})>> \o OsParts(lines, i + 1)
       ELSE OsParts(lines, i + 1)

ParseOsInfo(stdout) == Join(OsParts(SplitSep(Strip(stdout), "\n"), 1), 1)

ParseCores_undetected(results) == 1

\* cores: 1 unless the core-count command succeeded with an integer
ParseCores(results) ==
  LET Count(n) == IF IsExc(n) THEN 1 ELSE n.int
  IN IF Succeeded(results, "cpu_cores")
     THEN Count(PyInt(Strip(Stdout(results, "cpu_cores")))) ELSE 1

\* load_1m / cores for cores # 0
PerCore(load_1m, cores) ==
  IF cores > 0 THEN Rat(load_1m.n, load_1m.d * cores)
  ELSE Rat(0 - load_1m.n, load_1m.d * (0 - cores))

\* Each block of collect below yields the report fields it assigns (none
\* when its command failed), or the exception it lets through.
Unchanged == [unchanged |-> TRUE]

TextsBlock(results) ==
  [hostname |-> IF Succeeded(results, "hostname")
                THEN Strip(Stdout(results, "hostname")) ELSE "unknown",
   uptime |-> IF Succeeded(results, "uptime")
              THEN Strip(Stdout(results, "uptime")) ELSE "unknown",
   os_info |-> IF Succeeded(results, "os_info")
               THEN ParseOsInfo(Stdout(results, "os_info")) ELSE "unknown"]

LoadBlock(table, results) ==
  LET Load(cores, parts, load_1m, load_per_core) ==
        [cpu_load |-> Metric("CPU Load", Round(load_1m, 2),
                             "/ " \o ToString(cores) \o " cores",
                             _get_status(table, RatMulInt(load_per_core, 100), "cpu"),
                             [m1 |-> parts[1], m5 |-> parts[2], m15 |-> parts[3]]),
         cpu_load_per_core |-> Round(load_per_core, 2)]
      First(cores, parts, load_1m) ==
        IF IsExc(load_1m) THEN Unchanged
        ELSE IF cores = 0 THEN ZeroDivisionError
        ELSE IF Len(parts) < 3 THEN Unchanged
        ELSE Load(cores, parts, load_1m, PerCore(load_1m, cores))
      Parts(cores, parts) ==
        IF Len(parts) = 0 THEN Unchanged ELSE First(cores, parts, PyFloat(parts[1]))
  IN IF Succeeded(results, "load_avg")
     THEN Parts(ParseCores(results), SplitWs(Strip(Stdout(results, "load_avg"))))
     ELSE Unchanged

MemoryBlock(table, results) ==
  IF Succeeded(results, "memory")
  THEN _parse_memory(table, Stdout(results, "memory")) ELSE Unchanged

DiskBlock_error_entry(table, results) ==
  IF Succeeded(results, "disk")
  THEN _parse_disk(table, Stdout(results, "disk"))
  ELSE [disks |-> <<Metric("Disk", RatInt(0), "%", "error", Text(""))>>]

DiskBlock(table, results) ==
  IF Succeeded(results, "disk")
  THEN _parse_disk(table, Stdout(results, "disk")) ELSE Unchanged

TopCpuBlock(results) ==
  IF Succeeded(results, "top_cpu")
  THEN [top_cpu_processes |-> _parse_processes(Stdout(results, "top_cpu"))]
  ELSE Unchanged

TopMemBlock(results) ==
  IF Succeeded(results, "top_mem")
  THEN [top_mem_processes |-> _parse_processes(Stdout(results, "top_mem"))]
  ELSE Unchanged

SessionsBlock(results) ==
  LET Count(session_count) ==
        IF IsExc(session_count) THEN Unchanged
        ELSE [sessions |->
                Metric("Sessions", RatInt(session_count.int), "users",
                       FixedStatus(RatInt(session_count.int), SESSION_WARNING, SESSION_CRITICAL),
                       [active |-> session_count.int])]
  IN IF Succeeded(results, "sessions")
     THEN Count(PyInt(Strip(Stdout(results, "sessions")))) ELSE Unchanged

DockerBlock(results) ==
  IF Succeeded(results, "docker") /\ ~Contains(Stdout(results, "docker"), "NO_DOCKER")
  THEN _parse_docker(Stdout(results, "docker")) ELSE Unchanged

JournalBlock(results) ==
  IF Succeeded(results, "journal")
  THEN _parse_journal(Stdout(results, "journal")) ELSE Unchanged

\* the report after the blocks from the i-th on, or the first exception
RECURSIVE RunBlocks(_, _, _)
RunBlocks(report, blocks, i) ==
  IF i > Len(blocks) THEN report
  ELSE IF IsExc(blocks[i]) THEN blocks[i]
  ELSE RunBlocks([f \in DOMAIN report |->
                    IF f \in DOMAIN blocks[i] THEN blocks[i][f] ELSE report[f]],
                 blocks, i + 1)

\* HealthChecker.collect from the result map on
Collect(table, server_name, results) ==
  LET Analyzed(filled) == IF IsExc(filled) THEN filled ELSE _analyze_issues(filled)
  IN Analyzed(RunBlocks(InitialReport(server_name),
                        <<TextsBlock(results), LoadBlock(table, results),
                          MemoryBlock(table, results), DiskBlock(table, results),
                          TopCpuBlock(results), TopMemBlock(results),
                          SessionsBlock(results), DockerBlock(results),
                          JournalBlock(results)>>, 1))

(***************************************************************************)
(* The environment: what a command of the catalog may print when it runs,  *)
(* and how a command may fail on each transport.                           *)
(***************************************************************************)
\* the output of a healthy host
NominalStdout ==
  [hostname  |-> "web1\n",
   uptime    |-> "up 3 days\n",
   os_info   |-> "NAME=\"Ubuntu\"\nVERSION=\"22.04\"\n",
   cpu_cores |-> "4\n",
   load_avg  |-> "0.52 0.40 0.30 1/234 5678\n",
   memory    |-> "Mem: 1000 500 500\nSwap: 0 0 0\n",
   disk      |-> "/ 1000 500 500 50%\n/boot 400 40 360 10%\n",
   top_cpu   |-> "root 1 0.5 0.1 9 5 ? S 1:00 0:01 init -s\n",
   top_mem   |-> "www 77 0.1 9.5 9 5 ? S 1:00 0:09 python3 app.py\n",
   sessions  |-> "2\n",
   docker    |-> "NO_DOCKER\n",
   journal   |-> "120.5M\n"]

\* other outputs of a command that exits with status 0
OtherStdouts ==
  [hostname  |-> {""},
   uptime    |-> {},
   os_info   |-> {"garbage\n"},
   cpu_cores |-> {"0\n", "many\n"},
   load_avg  |-> {"3.80 2.00 1.00 1/234 5678\n", "2.80\n", "n/a\n", ""},
   memory    |-> {"Mem: 1000 900 100\nSwap: 100 40 60\n", "Mem: 0 0 0\n",
                  "Mem: total used\n", ""},
   disk      |-> {"/ 1000 850 150 85%\n/var 1000 700 300 70%\n/x 10 1 -\n",
                  "/ - - - 5%\n", "/ 1000 10 990 -\n", ""},
   top_cpu   |-> {"root 1 0.5\n"},
   top_mem   |-> {},
   sessions  |-> {"12\n", "60\n", ""},
   docker    |-> {"Images\t6GB\t1GB (16%)\nVolumes\t500MB\t0B (0%)\n",
                  "Images\t16GB\t0B (0%)\n"},
   journal   |-> {"1.2G\n", "600M\n", ".\n", ""}]

\* the ways a command fails on a transport
FailureEvents(kind) ==
  IF kind = "remote"
  THEN {RanEvent(ExitOf(1), "", ""), RanEvent(ExitOf(2), "", "command not found\n"),
        RanEvent(NoExit, "", ""),
        FailEvent("timeout", TRUE), FailEvent("timeout", FALSE),
        FailEvent("ssh_error", FALSE), FailEvent("exception", FALSE)}
  ELSE {RanEvent(ExitOf(1), "", ""), RanEvent(ExitOf(2), "", "command not found\n"),
        RanEvent(ExitOf(-1), "", ""),
        FailEvent("timeout", FALSE), FailEvent("exception", FALSE)}

NominalEvent(key) == RanEvent(ExitOf(0), NominalStdout[key], "")

\* the failure a single command of the catalog meets while the host is
\* reachable: it hangs until the timeout expires (every other kind of
\* failure is met host-wide, see outage)
CatalogFailures == {FailEvent("timeout", FALSE)}

FaultEvents(key) ==
  {RanEvent(ExitOf(0), out, "") : out \in OtherStdouts[key]} \cup CatalogFailures

\* commands the handlers and jobs run on their own, outside the catalog
AdHocCommands == {"echo 'OK'", "journalctl --vacuum-size=200M 2>&1"}

\* every way such a command may end
AdHocEvents(kind) ==
  {RanEvent(ExitOf(0), "OK\n", "")} \cup FailureEvents(kind)

\* the number of commands of one batch that may depart from the healthy
\* behaviour while the host is reachable
MaxFaults == 2

\* the longest batch handed to execute_multiple outside collect
MaxBatch == 3

NoOutage == [kind |-> "none"]

(***************************************************************************)
(* State                                                                   *)
(***************************************************************************)
VARIABLES
  thresholds,   \* HealthChecker.thresholds, taken from the settings
  transport,    \* the variant of self.ssh: "remote" (SSHManager) or "local"
  outage,       \* environment: NoOutage, or the failure every command meets
  pc,           \* "idle", "batch" (inside execute_multiple), "done" (collect
                \* ended) or "returned" (execute_multiple gave its dict back)
  commands,     \* the argument of execute_multiple
  results,      \* the dict execute_multiple builds
  calls,        \* history: the calls of execute so far, in order, each with
                \* the command, the event it met and the result it returned
  sessions,     \* history: SSH sessions opened since the batch began
  faults,       \* history: commands of the batch that departed from nominal
  report,       \* the HealthReport returned by collect, or NoReport
  raised,       \* the exception collect propagated, or None
  judged,       \* last call of a pure method made on its own, or NoJudgement
  servers,      \* the table "servers" of the database: name -> row
  outbox,       \* history: the texts the bot has sent or edited into a
                \* message since the job or handler that ran last began
  update,       \* the update the dispatcher handed to a handler last
  fsm,          \* the dialogue storage of the bot: user -> state and data
  job,          \* the locals of the scheduler job that is running, or NoJob
  tasks         \* the collect coroutines in flight, each with its own
                \* checker, transport and locals

\* the variables of the bot and the scheduler around the core
appvars == <<servers, outbox, update, fsm, job, tasks>>

\* the variables of one collect on its own
corevars == <<thresholds, transport, outage, pc, commands, results, calls,
              sessions, faults, report, raised, judged>>

vars == <<thresholds, transport, outage, pc, commands, results, calls,
          sessions, faults, report, raised, judged, appvars>>

NoReport == [server_name |-> None]
NoJudgement == [metric_type |-> None]
EmptyResults == [c \in {} |-> NoReport]
ServerName == "srv"
NoUpdate == [kind |-> None]
NoJob ==
  [name |-> None, pc |-> "done", servers |-> <<>>, i |-> 1, reports |-> <<>>,
   critical_reports |-> <<>>, outcomes |-> <<>>]

\* nothing stored, sent or running outside the core
AppIdle ==
  /\ servers = <<>>
  /\ outbox = <<>>
  /\ update = NoUpdate
  /\ fsm = <<>>
  /\ job = NoJob
  /\ tasks = <<>>

Init ==
  /\ thresholds \in SettingsChoices
  /\ transport = "local"
  /\ outage = NoOutage
  /\ pc = "idle"
  /\ commands = <<>>
  /\ results = EmptyResults
  /\ calls = <<>>
  /\ sessions = 0
  /\ faults = 0
  /\ report = NoReport
  /\ raised = None
  /\ judged = NoJudgement
  /\ AppIdle

\* check_local_server / check_remote_server up to the first await of
\* execute_multiple: the checker is built on a transport and the batch begins
StartCollect ==
  /\ pc = "idle"
  /\ \E kind \in {"remote", "local"} :
       /\ transport' = kind
       /\ outage' \in {NoOutage} \cup FailureEvents(kind)
  /\ commands' = CommandList
  /\ results' = EmptyResults
  /\ calls' = <<>>
  /\ sessions' = 0
  /\ faults' = 0
  /\ pc' = "batch"
  /\ UNCHANGED <<thresholds, report, raised, judged>>
  /\ UNCHANGED appvars

\* the events the environment may answer the next command with
CatalogCommands == {COMMANDS[k] : k \in DOMAIN COMMANDS}

KeyOf(cmd) == CHOOSE k \in DOMAIN COMMANDS : COMMANDS[k] = cmd

EventsFor(cmd) ==
  IF cmd \notin CatalogCommands THEN AdHocEvents(transport)
  ELSE IF outage # NoOutage THEN {outage}
  ELSE {NominalEvent(KeyOf(cmd))}
         \cup (IF faults < MaxFaults THEN FaultEvents(KeyOf(cmd)) ELSE {})

IsFault(cmd, ev) == cmd \in CatalogCommands /\ ev # NominalEvent(KeyOf(cmd))

Put(map, key, val) == [k \in DOMAIN map \cup {key} |-> IF k = key THEN val ELSE map[k]]

RunNext_retry(ev) ==
  LET cmd == commands[Len(calls) + 1]
      result == Execute(transport, ev)
      call == [command |-> cmd, event |-> ev, result |-> result]
  IN /\ results' = Put(results, cmd, result)
     /\ calls' = IF result.success THEN Append(calls, call) ELSE calls \o <<call, call>>
     /\ sessions' = sessions + SessionsOpened(transport, ev)
     /\ faults' = faults + (IF IsFault(cmd, ev) THEN 1 ELSE 0)

\* one iteration of the loop of execute_multiple: results[cmd] = await execute(cmd)
RunNext(ev) ==
  LET cmd == commands[Len(calls) + 1]
      result == Execute(transport, ev)
  IN /\ results' = Put(results, cmd, result)
     /\ calls' = Append(calls, [command |-> cmd, event |-> ev, result |-> result])
     /\ sessions' = sessions + SessionsOpened(transport, ev)
     /\ faults' = faults + (IF IsFault(cmd, ev) THEN 1 ELSE 0)

\* an iteration that is not the last one
ExecuteCommand ==
  /\ pc = "batch"
  /\ Len(calls) + 1 < Len(commands)
  /\ \E ev \in EventsFor(commands[Len(calls) + 1]) : RunNext(ev)
  /\ UNCHANGED <<thresholds, transport, outage, pc, commands, report, raised, judged>>
  /\ UNCHANGED appvars

\* the last iteration: execute_multiple returns and collect runs to its end
FinishCollect ==
  /\ pc = "batch"
  /\ Len(calls) + 1 = Len(commands)
  /\ \E ev \in EventsFor(commands[Len(calls) + 1]) : RunNext(ev)
  /\ LET r == Collect(thresholds, ServerName, results')
     IN IF IsExc(r)
        THEN report' = NoReport /\ raised' = r.exc
        ELSE report' = r /\ raised' = None
  /\ pc' = "done"
  /\ UNCHANGED <<thresholds, transport, outage, commands, judged>>
  /\ UNCHANGED appvars

Next == StartCollect \/ ExecuteCommand \/ FinishCollect

Spec == Init /\ [][Next]_vars

(***************************************************************************)
(* execute_multiple called on its own with a short batch                   *)
(***************************************************************************)
RECURSIVE SeqsUpTo(_, _)
SeqsUpTo(S, n) ==
  IF n = 0 THEN {<<>>}
  ELSE LET shorter == SeqsUpTo(S, n - 1)
       IN shorter \cup {Append(q, x) : q \in {p \in shorter : Len(p) = n - 1}, x \in S}

Batches == SeqsUpTo(AdHocCommands, MaxBatch)

InitTransport ==
  /\ thresholds = DefaultThresholds
  /\ transport \in {"remote", "local"}
  /\ outage = NoOutage
  /\ pc = "batch"
  /\ commands \in Batches
  /\ results = EmptyResults
  /\ calls = <<>>
  /\ sessions = 0
  /\ faults = 0
  /\ report = NoReport
  /\ raised = None
  /\ judged = NoJudgement
  /\ AppIdle

ReturnResults_on_failure ==
  /\ pc = "batch"
  /\ \/ Len(calls) = Len(commands)
     \/ Len(calls) > 0 /\ ~calls[Len(calls)].result.success
  /\ pc' = "returned"
  /\ UNCHANGED <<thresholds, transport, outage, commands, results, calls,
                 sessions, faults, report, raised, judged>>
  /\ UNCHANGED appvars

\* the loop is over: return results
ReturnResults ==
  /\ pc = "batch"
  /\ Len(calls) = Len(commands)
  /\ pc' = "returned"
  /\ UNCHANGED <<thresholds, transport, outage, commands, results, calls,
                 sessions, faults, report, raised, judged>>
  /\ UNCHANGED appvars

\* an iteration of the loop
ExecuteOne ==
  /\ pc = "batch"
  /\ Len(calls) < Len(commands)
  /\ \E ev \in EventsFor(commands[Len(calls) + 1]) : RunNext(ev)
  /\ UNCHANGED <<thresholds, transport, outage, pc, commands, report, raised, judged>>
  /\ UNCHANGED appvars

NextTransport == ExecuteOne \/ ReturnResults

SpecTransport == InitTransport /\ [][NextTransport]_vars

(***************************************************************************)
(* _get_status on its own: any table the settings accept, any value        *)
(***************************************************************************)
\* thresholds and values range over 0..MaxLevel (values also over halves)
MaxLevel == 3

Pairs == [warning : 0..MaxLevel, critical : 0..MaxLevel]

\* the default table with the pair of one kind replaced
Tables ==
  {[DefaultThresholds EXCEPT ![k] = p] : k \in Kinds, p \in Pairs} \cup SettingsChoices

\* values around every threshold of Tables, and around the default ones
Values ==
  {Rat(h, 2) : h \in 0..(2 * MaxLevel + 2)}
    \cup {Rat(t, 10) : t \in {299, 300, 499, 500, 699, 700, 849, 850, 899, 900}}

InitClassify ==
  /\ thresholds \in Tables
  /\ transport = "local"
  /\ outage = NoOutage
  /\ pc = "idle"
  /\ commands = <<>>
  /\ results = EmptyResults
  /\ calls = <<>>
  /\ sessions = 0
  /\ faults = 0
  /\ report = NoReport
  /\ raised = None
  /\ judged = NoJudgement
  /\ AppIdle

\* a call self._get_status(value, metric_type)
Classify ==
  /\ \E value \in Values, metric_type \in Kinds \cup {"inode"} :
       judged' = [metric_type |-> metric_type, value |-> value,
                  status |-> _get_status(thresholds, value, metric_type)]
  /\ UNCHANGED <<thresholds, transport, outage, pc, commands, results, calls,
                 sessions, faults, report, raised>>
  /\ UNCHANGED appvars

SpecClassify == InitClassify /\ [][Classify]_vars

(***************************************************************************)
(* The parsers on their own: texts written in the format of the commands   *)
(* from bounded numbers                                                    *)
(***************************************************************************)
\* totals are 0..MaxUnits times a unit of 1 or 250 bytes, used is 0..total
MaxUnits == 4

Amounts == {[total |-> t * u, used |-> x * u] : t \in 0..MaxUnits, x \in 0..MaxUnits,
                                               u \in {1, 250}}

\* a line of free -b: the tag, total, used and free
FreeLine(tag, a) ==
  tag \o " " \o ToString(a.total) \o " " \o ToString(a.used) \o " "
      \o ToString(a.total - a.used) \o "\n"

InitParse ==
  /\ thresholds \in SettingsChoices
  /\ transport = "local"
  /\ outage = NoOutage
  /\ pc = "idle"
  /\ commands = <<>>
  /\ results = EmptyResults
  /\ calls = <<>>
  /\ sessions = 0
  /\ faults = 0
  /\ report = NoReport
  /\ raised = None
  /\ judged = NoJudgement
  /\ AppIdle

\* a call self._parse_memory(output) on the Mem: and Swap: lines of free
ParseMemoryText ==
  /\ judged = NoJudgement
  /\ \E mem \in {a \in Amounts : a.used <= a.total},
        swap \in {a \in Amounts : a.used <= a.total /\ a.total \in {0, 2, 3, MaxUnits}} :
       judged' = [parser |-> "memory", mem |-> mem, swap |-> swap,
                  out |-> _parse_memory(thresholds,
                                        FreeLine("Mem:", mem) \o FreeLine("Swap:", swap))]
  /\ UNCHANGED <<thresholds, transport, outage, pc, commands, results, calls,
                 sessions, faults, report, raised>>
  /\ UNCHANGED appvars

\* lines of df -B1 --output=target,size,used,avail,pcent that begin with "/":
\* the text, its first field, the number of its fields and the number in its
\* last field (none for "-", which df prints where it has no figure)
DfLines ==
  {[text |-> "/ 1000 850 150 85%", first |-> "/", fields |-> 5, pcent |-> <<85>>],
   [text |-> "/var 1000 700 300 70%", first |-> "/var", fields |-> 5, pcent |-> <<70>>],
   [text |-> "/boot 400 40 360 10%", first |-> "/boot", fields |-> 5, pcent |-> <<10>>],
   [text |-> "/dev 0 0 0 -", first |-> "/dev", fields |-> 5, pcent |-> <<>>],
   [text |-> "/sys - - - -", first |-> "/sys", fields |-> 5, pcent |-> <<>>],
   [text |-> "/mnt/my disk 1000 500 500 50%", first |-> "/mnt/my", fields |-> 6,
    pcent |-> <<50>>],
   [text |-> "/x 10 1 -", first |-> "/x", fields |-> 4, pcent |-> <<>>]}

\* the longest df output
MaxLines == 2

RECURSIVE TextOf(_, _)
TextOf(lines, i) ==
  IF i > Len(lines) THEN "" ELSE lines[i].text \o "\n" \o TextOf(lines, i + 1)

\* a call self._parse_disk(output)
ParseDiskText ==
  /\ judged = NoJudgement
  /\ \E lines \in SeqsUpTo(DfLines, MaxLines) :
       judged' = [parser |-> "disk", lines |-> lines,
                  out |-> _parse_disk(thresholds, TextOf(lines, 1))]
  /\ UNCHANGED <<thresholds, transport, outage, pc, commands, results, calls,
                 sessions, faults, report, raised>>
  /\ UNCHANGED appvars

\* size tokens: a number, then no suffix or one of K, M, G, T, then "B" or
\* nothing (whole numbers only where the unit is the byte); number is <<>>
\* for a text that is no number
Numerals ==
  {[text |-> "0", number |-> <<RatInt(0)>>], [text |-> "2", number |-> <<RatInt(2)>>],
   [text |-> "500", number |-> <<RatInt(500)>>], [text |-> "1000", number |-> <<RatInt(1000)>>],
   [text |-> "1.5", number |-> <<Rat(3, 2)>>]}

SizeTokens ==
  {[text |-> n.text \o s \o b, number |-> n.number, suffix |-> s] :
     n \in {x \in Numerals : x.text # "1.5"}, s \in {""}, b \in {"", "B"}}
  \cup {[text |-> n.text \o s \o b, number |-> n.number, suffix |-> s] :
          n \in Numerals, s \in {"K", "M", "G", "T"}, b \in {"", "B"}}
  \cup {[text |-> t, number |-> <<>>, suffix |-> ""] : t \in {"x", "", "-"}}

\* a call self._parse_size_to_gb(size_str)
ParseSizeText ==
  /\ judged = NoJudgement
  /\ \E token \in SizeTokens :
       judged' = [parser |-> "size", token |-> token, out |-> _parse_size_to_gb(token.text)]
  /\ UNCHANGED <<thresholds, transport, outage, pc, commands, results, calls,
                 sessions, faults, report, raised>>
  /\ UNCHANGED appvars

\* a call self._parse_journal(output)
ParseJournalText ==
  /\ judged = NoJudgement
  /\ \E token \in SizeTokens :
       judged' = [parser |-> "journal", token |-> token,
                  out |-> _parse_journal(token.text \o "\n")]
  /\ UNCHANGED <<thresholds, transport, outage, pc, commands, results, calls,
                 sessions, faults, report, raised>>
  /\ UNCHANGED appvars

\* counts printed by who | wc -l, around the session levels
SessionCounts == {0, 9, 10, 11, 49, 50, 51}

\* the sessions block of collect on the result of a successful who | wc -l
ParseSessionsText ==
  /\ judged = NoJudgement
  /\ \E n \in SessionCounts :
       judged' = [parser |-> "sessions", count |-> n,
                  out |-> SessionsBlock(
                            [c \in {COMMANDS.sessions} |->
                               Execute("local", RanEvent(ExitOf(0), ToString(n) \o "\n", ""))])]
  /\ UNCHANGED <<thresholds, transport, outage, pc, commands, results, calls,
                 sessions, faults, report, raised>>
  /\ UNCHANGED appvars

\* sizes printed by docker system df, with their value in GB
DockerSizes ==
  {[text |-> "0B", gb |-> RatInt(0)], [text |-> "100MB", gb |-> Rat(25, 256)],
   [text |-> "4.9GB", gb |-> Rat(49, 10)], [text |-> "5GB", gb |-> RatInt(5)],
   [text |-> "5120MB", gb |-> RatInt(5)], [text |-> "10GB", gb |-> RatInt(10)],
   [text |-> "14.9GB", gb |-> Rat(149, 10)], [text |-> "15GB", gb |-> RatInt(15)]}

RECURSIVE DockerText(_, _)
DockerText(sizes, i) ==
  IF i > Len(sizes) THEN ""
  ELSE "Images\t" \o sizes[i].text \o "\t0B (0%)\n" \o DockerText(sizes, i + 1)

\* a call self._parse_docker(output)
ParseDockerText ==
  /\ judged = NoJudgement
  /\ \E sizes \in SeqsUpTo(DockerSizes, MaxLines) :
       judged' = [parser |-> "docker", sizes |-> sizes,
                  out |-> _parse_docker(DockerText(sizes, 1))]
  /\ UNCHANGED <<thresholds, transport, outage, pc, commands, results, calls,
                 sessions, faults, report, raised>>
  /\ UNCHANGED appvars

\* outputs of cat /proc/loadavg with the 1-minute load they hold (<<>> for a
\* text that is no number) and the number of their fields
LoadTexts ==
  {[text |-> "0.52 0.40 0.30 1/234 5678\n", load |-> <<Rat(52, 100)>>, fields |-> 5],
   [text |-> "0.70 0.40 0.30 1/234 5678\n", load |-> <<Rat(70, 100)>>, fields |-> 5],
   [text |-> "1.80 2.00 1.00 3/234 5678\n", load |-> <<Rat(180, 100)>>, fields |-> 5],
   [text |-> "3.80 2.00 1.00 3/234 5678\n", load |-> <<Rat(380, 100)>>, fields |-> 5],
   [text |-> "2.80\n", load |-> <<Rat(280, 100)>>, fields |-> 1],
   [text |-> "n/a\n", load |-> <<>>, fields |-> 1]}

\* what the core-count command gives: a failure, or a text with the count it
\* holds (<<>> for a text that is no integer)
CoreResults ==
  {[event |-> FailEvent("timeout", FALSE), cores |-> <<>>],
   [event |-> RanEvent(ExitOf(0), "many\n", ""), cores |-> <<>>]}
  \cup {[event |-> RanEvent(ExitOf(0), ToString(n) \o "\n", ""), cores |-> <<n>>] :
          n \in 0..MaxUnits}

\* the load block of collect on the results of nproc and cat /proc/loadavg
ParseLoadText ==
  /\ judged = NoJudgement
  /\ \E l \in LoadTexts, c \in CoreResults :
       judged' = [parser |-> "load", load |-> l.load, fields |-> l.fields, cores |-> c.cores,
                  out |-> LoadBlock(thresholds,
                            [x \in {COMMANDS.cpu_cores, COMMANDS.load_avg} |->
                               IF x = COMMANDS.cpu_cores THEN Execute("local", c.event)
                               ELSE Execute("local", RanEvent(ExitOf(0), l.text, ""))])]
  /\ UNCHANGED <<thresholds, transport, outage, pc, commands, results, calls,
                 sessions, faults, report, raised>>
  /\ UNCHANGED appvars

NextParse ==
  \/ ParseLoadText
  \/ ParseMemoryText
  \/ ParseDiskText
  \/ ParseSizeText
  \/ ParseJournalText
  \/ ParseSessionsText
  \/ ParseDockerText

SpecParse == InitParse /\ [][NextParse]_vars

(***************************************************************************)
(* Two collects in flight at once, as asyncio runs the coroutines of        *)
(* check_local_server and check_remote_server: a step of one task is the    *)
(* code between two awaits of execute                                       *)
(***************************************************************************)
\* task 1 checks the local host, task 2 a remote one
TaskKinds == <<"local", "remote">>

\* what a command may answer while two tasks run: the healthy output, a
\* loaded memory, a sessions command that hangs
TaskEvents(key) ==
  {NominalEvent(key)}
    \cup (IF key = "memory"
          THEN {RanEvent(ExitOf(0), "Mem: 1000 900 100\nSwap: 100 40 60\n", "")}
          ELSE IF key = "sessions" THEN CatalogFailures ELSE {})

\* no coroutine has started; thresholds stands for the global settings
InitTasks ==
  /\ thresholds \in SettingsChoices
  /\ transport = "local"
  /\ outage = NoOutage
  /\ pc = "idle"
  /\ commands = <<>>
  /\ results = EmptyResults
  /\ calls = <<>>
  /\ sessions = 0
  /\ faults = 0
  /\ report = NoReport
  /\ raised = None
  /\ judged = NoJudgement
  /\ servers = <<>>
  /\ outbox = <<>>
  /\ update = NoUpdate
  /\ fsm = <<>>
  /\ job = NoJob
  /\ tasks = [t \in DOMAIN TaskKinds |->
                [pc |-> "new", kind |-> TaskKinds[t], server_name |-> None,
                 thresholds |-> None, commands |-> <<>>, results |-> EmptyResults,
                 events |-> <<>>, outcome |-> NoReport]]

\* ssh = ...; checker = HealthChecker(ssh, name); collect up to the first
\* await: the table is read from the settings, the dict of results is new
TaskStart(t) ==
  /\ tasks[t].pc = "new"
  /\ tasks' = [tasks EXCEPT ![t] =
                 [@ EXCEPT !.pc = "batch",
                           !.server_name = "srv" \o ToString(t),
                           !.thresholds = thresholds,
                           !.commands = CommandList,
                           !.results = EmptyResults]]
  /\ UNCHANGED <<corevars, servers, outbox, update, fsm, job>>

Store_module_level(ts, t, cmd, result) ==
  [u \in DOMAIN ts |-> [ts[u] EXCEPT !.results = Put(@, cmd, result)]]

\* results[cmd] = ...: the dict is a local of the call of execute_multiple
Store(ts, t, cmd, result) == [ts EXCEPT ![t].results = Put(@, cmd, result)]

\* one iteration of the loop of execute_multiple in task t
TaskExecute(t) ==
  /\ tasks[t].pc = "batch"
  /\ Len(tasks[t].events) < Len(tasks[t].commands)
  /\ LET Run(cmd) ==
           \E ev \in TaskEvents(KeyOf(cmd)) :
             tasks' = [Store(tasks, t, cmd, Execute(tasks[t].kind, ev))
                         EXCEPT ![t].events = Append(@, ev)]
     IN Run(tasks[t].commands[Len(tasks[t].events) + 1])
  /\ UNCHANGED <<corevars, servers, outbox, update, fsm, job>>

\* execute_multiple returns its dict and collect runs to its end
TaskFinish(t) ==
  /\ tasks[t].pc = "batch"
  /\ Len(tasks[t].events) = Len(tasks[t].commands)
  /\ tasks' = [tasks EXCEPT ![t] =
                 [@ EXCEPT !.pc = "done",
                           !.outcome = Collect(tasks[t].thresholds, tasks[t].server_name,
                                               tasks[t].results)]]
  /\ UNCHANGED <<corevars, servers, outbox, update, fsm, job>>

NextTasks ==
  \E t \in DOMAIN TaskKinds : TaskStart(t) \/ TaskExecute(t) \/ TaskFinish(t)

SpecTasks == InitTasks /\ [][NextTasks]_vars

(***************************************************************************)
(* core/report_formatter.py and the alert text of quick_alert_check.  A    *)
(* text is the sequence of its lines; a line is modelled by the part of    *)
(* the report it shows, not by its wording.                                *)
(***************************************************************************)
Line(kind, shows) == [line |-> kind, shows |-> shows]

\* seq[:n]
Head_n(seq, n) == SubSeq(seq, 1, IF Len(seq) < n THEN Len(seq) ELSE n)

\* a header followed by one bullet per entry, or nothing for an empty list
Section(kind, entries) ==
  IF entries = <<>> THEN <<>>
  ELSE <<Line(kind \o "s", Len(entries))>>
         \o [i \in 1..Len(entries) |-> Line(kind, entries[i])]

NoServer == [name |-> None]

format_full_report(r, server) ==
  <<Line("server", [server_name |-> r.server_name])>>
    \o (IF server = NoServer THEN <<>> ELSE <<Line("ip", [host |-> server.host])>>)
    \o <<Line("uptime", [uptime |-> r.uptime]),
         Line("overall", [status |-> r.overall_status]),
         Line("cpu", r.cpu_load), Line("ram", r.ram), Line("swap", r.swap)>>
    \o [i \in 1..Len(r.disks) |-> Line("disk", r.disks[i])]
    \o <<Line("sessions", r.sessions)>>
    \o (IF r.docker = NoMetric THEN <<>> ELSE <<Line("docker", r.docker)>>)
    \o (IF r.journal_size = NoMetric THEN <<>> ELSE <<Line("journal", r.journal_size)>>)
    \o Section("issue", Head_n(r.issues, 5))
    \o Section("recommendation", Head_n(r.recommendations, 3))
    \o Section("error", Head_n(r.errors, 3))

\* the text quick_alert_check builds for a change to critical
alert_text(server_name, r) ==
  <<Line("server", [server_name |-> server_name]),
    Line("overall", [status |-> "critical"])>>
    \o [i \in 1..Len(r.issues) |-> Line("issue", r.issues[i])]

(***************************************************************************)
(* The texts on their own, built from reports collect returns              *)
(***************************************************************************)
\* the outputs of a loaded host, command by command
LoadedStdout ==
  [load_avg |-> "3.80 2.00 1.00 1/234 5678\n",
   memory   |-> "Mem: 1000 900 100\nSwap: 100 40 60\n",
   disk     |-> "/ 1000 850 150 85%\n/var 1000 700 300 70%\n/x 10 1 -\n",
   sessions |-> "60\n",
   docker   |-> "Images\t16GB\t0B (0%)\n",
   journal  |-> "1.2G\n"]

\* the dict of results of a host on which the commands of the set are loaded
ResultsOf(loaded) ==
  [cmd \in CatalogCommands |->
     LocalExecute(RanEvent(ExitOf(0),
                           IF KeyOf(cmd) \in loaded THEN LoadedStdout[KeyOf(cmd)]
                           ELSE NominalStdout[KeyOf(cmd)], ""))]

InitRender ==
  /\ thresholds \in SettingsChoices
  /\ transport = "local"
  /\ outage = NoOutage
  /\ pc = "done"
  /\ commands = CommandList
  /\ results \in {ResultsOf(loaded) : loaded \in SUBSET DOMAIN LoadedStdout}
  /\ calls = <<>>
  /\ sessions = 0
  /\ faults = 0
  /\ report = Collect(thresholds, ServerName, results)
  /\ raised = None
  /\ judged = NoJudgement
  /\ AppIdle

\* format_full_report(report) or format_full_report(report, server)
FormatFullReport ==
  /\ judged = NoJudgement
  /\ \E server \in {NoServer, [name |-> ServerName, host |-> "localhost"]} :
       judged' = [text |-> "format_full_report",
                  lines |-> format_full_report(report, server)]
  /\ UNCHANGED <<thresholds, transport, outage, pc, commands, results, calls,
                 sessions, faults, report, raised>>
  /\ UNCHANGED appvars

\* the alert text of quick_alert_check, built for a critical report
BuildAlertText ==
  /\ judged = NoJudgement
  /\ report.overall_status = "critical"
  /\ judged' = [text |-> "alert_text", lines |-> alert_text(ServerName, report)]
  /\ UNCHANGED <<thresholds, transport, outage, pc, commands, results, calls,
                 sessions, faults, report, raised>>
  /\ UNCHANGED appvars

NextRender == FormatFullReport \/ BuildAlertText

SpecRender == InitRender /\ [][NextRender]_vars

(***************************************************************************)
(* database/db.py: the table "servers", and scheduler/jobs.py              *)
(***************************************************************************)
\* the names a server may have, in the order of ORDER BY name
ServerNames == <<"alpha", "beta">>

Server(name, host, is_active, last_status) ==
  [name |-> name, host |-> host, port |-> 22, username |-> "root",
   is_active |-> is_active, last_status |-> last_status]

\* Database.get_all_servers(): the active rows, by name
get_all_servers(table) ==
  LET Active(name) == name \in DOMAIN table /\ table[name].is_active
      Rows(names) == [i \in 1..Len(names) |-> table[names[i]]]
  IN Rows(SelectSeq(ServerNames, Active))

\* Database.get_server(name): the row or None
get_server(table, name) == IF name \in DOMAIN table THEN table[name] ELSE NoServer

update_last_check_every_row(table, name, status) ==
  [n \in DOMAIN table |-> [table[n] EXCEPT !.last_status = status]]

\* Database.update_last_check(name, status): UPDATE ... WHERE name = ?
update_last_check(table, name, status) ==
  [n \in DOMAIN table |->
     IF n = name THEN [table[n] EXCEPT !.last_status = status] ELSE table[n]]

\* what check_local_server / check_remote_server may meet on a host: a
\* healthy host, a full disk, a loaded memory with many sessions, a host
\* that answers no command in time, a host whose nproc prints 0
CheckResults(host) ==
  LET kind == IF host = "localhost" THEN "local" ELSE "remote"
  IN {ResultsOf(loaded) : loaded \in {{}, {"disk"}, {"memory", "sessions"}}}
       \cup {[cmd \in CatalogCommands |-> Execute(kind, FailEvent("timeout", FALSE))]}
       \cup {[ResultsOf({}) EXCEPT ![COMMANDS["cpu_cores"]] =
                Execute(kind, RanEvent(ExitOf(0), "0\n", ""))]}

\* format_all_servers_summary(reports): one entry per report, sorted by
\* status priority (sorted is stable), then the totals
format_all_servers_summary(reports) ==
  LET Entry(r) == [server_name |-> r.server_name, status |-> r.overall_status]
      Entries(rs) == [i \in 1..Len(rs) |-> Entry(rs[i])]
      IsCritical(r) == r.overall_status = "critical"
      IsWarning(r) == r.overall_status = "warning"
      IsError(r) == r.overall_status = "error"
      IsOk(r) == r.overall_status = "ok"
  IN [servers |-> Entries(SelectSeq(reports, IsCritical) \o SelectSeq(reports, IsWarning)
                            \o SelectSeq(reports, IsError) \o SelectSeq(reports, IsOk)),
      critical |-> Len(SelectSeq(reports, IsCritical)),
      warning |-> Len(SelectSeq(reports, IsWarning)),
      ok |-> Len(SelectSeq(reports, IsOk))]

\* bot.send_message(chat_id=settings.admin_id, text=...)
ToAdmin(kind, text) == [chat_id |-> "admin_id", kind |-> kind, text |-> text]

\* the locals of a job entered with the rows it read
NewJob(name, rows) ==
  [name |-> name, pc |-> IF rows = <<>> THEN "done" ELSE "loop", servers |-> rows,
   i |-> 1, reports |-> <<>>, critical_reports |-> <<>>, outcomes |-> <<>>]

\* the tables a job may find: each server absent, inactive, or active with
\* any stored status
JobTables ==
  LET Hosts == [alpha |-> "localhost", beta |-> "10.0.0.2"]
      RowsOf(name) ==
        {Server(name, Hosts[name], TRUE, st) : st \in {None, "ok", "warning", "critical"}}
          \cup {Server(name, Hosts[name], FALSE, "ok")}
      TablesOver(names) == {t \in [names -> UNION {RowsOf(n) : n \in names}] :
                          \A n \in names : t[n].name = n}
  IN UNION {TablesOver(names) : names \in SUBSET {"alpha", "beta"}}

InitJobs ==
  /\ thresholds = DefaultThresholds
  /\ transport = "local"
  /\ outage = NoOutage
  /\ pc = "idle"
  /\ commands = <<>>
  /\ results = EmptyResults
  /\ calls = <<>>
  /\ sessions = 0
  /\ faults = 0
  /\ report = NoReport
  /\ raised = None
  /\ judged = NoJudgement
  /\ servers \in JobTables
  /\ outbox = <<>>
  /\ update = NoUpdate
  /\ fsm = <<>>
  /\ job = NoJob
  /\ tasks = <<>>

JobIdle == job.pc = "done"

\* scheduled_health_check up to the loop
StartScheduled ==
  /\ JobIdle
  /\ job' = NewJob("scheduled_health_check", get_all_servers(servers))
  /\ outbox' = <<>>
  /\ UNCHANGED <<corevars, servers, update, fsm, tasks>>

\* one iteration of the loop of scheduled_health_check
ScheduledCheck ==
  /\ job.name = "scheduled_health_check" /\ job.pc = "loop"
  /\ job.i <= Len(job.servers)
  /\ LET Checked(server, outcome) ==
           IF IsExc(outcome)
           THEN /\ job' = [job EXCEPT !.i = @ + 1, !.outcomes = Append(@, outcome)]
                /\ UNCHANGED servers
           ELSE /\ job' = [job EXCEPT
                             !.i = @ + 1,
                             !.outcomes = Append(@, outcome),
                             !.reports = Append(@, outcome),
                             !.critical_reports =
                               IF outcome.overall_status = "critical"
                               THEN Append(@, outcome) ELSE @]
                /\ servers' = update_last_check(servers, server.name, outcome.overall_status)
         Iteration(server) ==
           \E res \in CheckResults(server.host) :
             Checked(server, Collect(thresholds, server.name, res))
     IN Iteration(job.servers[job.i])
  /\ UNCHANGED <<corevars, outbox, update, fsm, tasks>>

\* after the loop: the summary, then one alert per critical report
ScheduledReport ==
  /\ job.name = "scheduled_health_check" /\ job.pc = "loop"
  /\ job.i > Len(job.servers)
  /\ outbox' =
       (IF job.reports = <<>> THEN <<>>
        ELSE <<ToAdmin("summary", format_all_servers_summary(job.reports))>>)
       \o [k \in 1..Len(job.critical_reports) |->
             ToAdmin("critical_alert", format_full_report(job.critical_reports[k], NoServer))]
  /\ job' = [job EXCEPT !.pc = "done"]
  /\ UNCHANGED <<corevars, servers, update, fsm, tasks>>

\* quick_alert_check up to the loop
StartQuick ==
  /\ JobIdle
  /\ job' = NewJob("quick_alert_check", get_all_servers(servers))
  /\ outbox' = <<>>
  /\ UNCHANGED <<corevars, servers, update, fsm, tasks>>

\* one iteration of the loop of quick_alert_check.  report.disk_percent is
\* an attribute HealthReport does not declare: reading it raises
\* AttributeError, which the except clause of the iteration logs.
QuickCheck ==
  /\ job.name = "quick_alert_check" /\ job.pc = "loop"
  /\ job.i <= Len(job.servers)
  /\ LET Optimized(r) ==
           IF r.disk_percent > 80
           THEN <<ToAdmin("auto_optimize", [server |-> r.server_name])>> ELSE <<>>
         Alert(server, r) ==
           IF r.overall_status = "critical" /\ server.last_status # "critical"
           THEN <<ToAdmin("status_change", alert_text(server.name, r))>> ELSE <<>>
         Checked(server, outcome) ==
           IF IsExc(outcome)
           THEN /\ job' = [job EXCEPT !.i = @ + 1, !.outcomes = Append(@, outcome)]
                /\ UNCHANGED <<servers, outbox>>
           ELSE IF "disk_percent" \notin DOMAIN outcome
           THEN /\ job' = [job EXCEPT !.i = @ + 1,
                                      !.outcomes = Append(@, [exc |-> "AttributeError",
                                                              report |-> outcome])]
                /\ UNCHANGED <<servers, outbox>>
           ELSE /\ job' = [job EXCEPT !.i = @ + 1, !.outcomes = Append(@, outcome)]
                /\ outbox' = outbox \o Optimized(outcome) \o Alert(server, outcome)
                /\ servers' = update_last_check(servers, server.name, outcome.overall_status)
         Iteration(server) ==
           \E res \in CheckResults(server.host) :
             Checked(server, Collect(thresholds, server.name, res))
     IN Iteration(job.servers[job.i])
  /\ UNCHANGED <<corevars, update, fsm, tasks>>

\* the loop of quick_alert_check is over
QuickEnd ==
  /\ job.name = "quick_alert_check" /\ job.pc = "loop"
  /\ job.i > Len(job.servers)
  /\ job' = [job EXCEPT !.pc = "done"]
  /\ UNCHANGED <<corevars, servers, outbox, update, fsm, tasks>>

NextJobs ==
  \/ StartScheduled \/ ScheduledCheck \/ ScheduledReport
  \/ StartQuick \/ QuickCheck \/ QuickEnd

SpecJobs == InitJobs /\ [][NextJobs]_vars

(***************************************************************************)
(* bot/handlers.py: the commands and the add-server dialogue.  An update   *)
(* comes from whoever wrote to the bot or pressed a button of one of its    *)
(* messages (in a group chat every member can).  The dispatcher tries the   *)
(* command handlers before the handlers of the dialogue states.            *)
(***************************************************************************)
\* settings.admin_id and the id of some other user
Users == {"admin_id", "other_id"}

NoData == [k \in {} |-> None]

\* the state and data the storage keeps for a user: state.clear()
Cleared == [state |-> None, data |-> NoData]

\* what a handler did: the dialogue of the user, the table, the replies
Effect(dialogue, table, replies) ==
  [dialogue |-> dialogue, servers |-> table, replies |-> replies]

Reply(kind, shows) == [kind |-> kind, shows |-> shows]

cmd_start(user, dialogue, table) ==
  IF user # "admin_id" THEN Effect(dialogue, table, <<Reply("denied", NoData)>>)
  ELSE Effect(dialogue, table, <<Reply("main_menu", NoData)>>)

cmd_add(user, dialogue, table) ==
  IF user # "admin_id" THEN Effect(dialogue, table, <<>>)
  ELSE Effect([dialogue EXCEPT !.state = "name"], table, <<Reply("ask_name", NoData)>>)

cb_add_server(user, dialogue, table) ==
  Effect([dialogue EXCEPT !.state = "name"], table, <<Reply("ask_name", NoData)>>)

add_server_name_unchecked(dialogue, table, text) ==
  Effect([state |-> "host", data |-> Put(dialogue.data, "name", Strip(text))], table,
         <<Reply("ask_host", [name |-> Strip(text)])>>)

add_server_name(dialogue, table, text) ==
  LET Named(name) ==
        IF get_server(table, name) # NoServer
        THEN Effect(dialogue, table, <<Reply("name_exists", NoData)>>)
        ELSE Effect([state |-> "host", data |-> Put(dialogue.data, "name", name)], table,
                    <<Reply("ask_host", [name |-> name])>>)
  IN Named(Strip(text))

add_server_host(dialogue, table, text) ==
  Effect([state |-> "port", data |-> Put(dialogue.data, "host", Strip(text))], table,
         <<Reply("ask_port", [host |-> Strip(text)])>>)

add_server_port(dialogue, table, text) ==
  LET Ported(port) ==
        IF IsExc(port) THEN Effect(dialogue, table, <<Reply("port_invalid", NoData)>>)
        ELSE Effect([state |-> "username", data |-> Put(dialogue.data, "port", port.int)],
                    table, <<Reply("ask_username", [port |-> port.int])>>)
  IN Ported(IF text = "/skip" THEN [int |-> 22] ELSE PyInt(text))

\* Database.add_server: the INSERT, which the UNIQUE name may refuse
add_server(table, server) ==
  IF server.name \in DOMAIN table THEN [exc |-> "IntegrityError"]
  ELSE Put(table, server.name, server)

add_server_username(dialogue, table, text) ==
  LET Saved(server, inserted) ==
        IF IsExc(inserted)
        THEN Effect(dialogue, table, <<Reply("error", inserted)>>)
        ELSE Effect(Cleared, inserted, <<Reply("server_added", server)>>)
      Built(server) == Saved(server, add_server(table, server))
      New(data, username) ==
        [Server(data["name"], data["host"], TRUE, None)
           EXCEPT !.port = data["port"], !.username = username]
  IN IF {"name", "host", "port"} \subseteq DOMAIN dialogue.data
     THEN Built(New(dialogue.data, IF text = "/skip" THEN "root" ELSE Strip(text)))
     ELSE Effect(dialogue, table, <<>>)

\* what a user may answer at each step of the dialogue
Answers ==
  [name     |-> {"web1", " db2 "},
   host     |-> {"localhost", " 10.0.0.2"},
   port     |-> {"/skip", "2222", "ssh"},
   username |-> {"/skip", " admin "}]

InitBot ==
  /\ thresholds = DefaultThresholds
  /\ transport = "local"
  /\ outage = NoOutage
  /\ pc = "idle"
  /\ commands = <<>>
  /\ results = EmptyResults
  /\ calls = <<>>
  /\ sessions = 0
  /\ faults = 0
  /\ report = NoReport
  /\ raised = None
  /\ judged = NoJudgement
  /\ servers = [n \in {"web1"} |-> Server("web1", "localhost", TRUE, "ok")]
  /\ outbox = <<>>
  /\ update = NoUpdate
  /\ fsm = [u \in Users |-> Cleared]
  /\ job = NoJob
  /\ tasks = <<>>

\* the dispatcher ran a handler for an update of a user
Handled(user, upd, effect) ==
  /\ update' = [upd EXCEPT !.user = user]
  /\ fsm' = [fsm EXCEPT ![user] = effect.dialogue]
  /\ servers' = effect.servers
  /\ outbox' = effect.replies
  /\ calls' = <<>>
  /\ UNCHANGED <<thresholds, transport, outage, pc, commands, results,
                 sessions, faults, report, raised, judged>>
  /\ UNCHANGED <<job, tasks>>

Command(text) == [kind |-> "message", text |-> text, user |-> None]
Pressed(data) == [kind |-> "callback_query", text |-> data, user |-> None]

CmdStart ==
  \E u \in Users : Handled(u, Command("/start"), cmd_start(u, fsm[u], servers))

CmdAdd ==
  \E u \in Users : Handled(u, Command("/add"), cmd_add(u, fsm[u], servers))

CbAddServer ==
  \E u \in Users : Handled(u, Pressed("add_server"), cb_add_server(u, fsm[u], servers))

AddServerName ==
  \E u \in Users, text \in Answers["name"] :
    /\ fsm[u].state = "name"
    /\ Handled(u, Command(text), add_server_name(fsm[u], servers, text))

AddServerHost ==
  \E u \in Users, text \in Answers["host"] :
    /\ fsm[u].state = "host"
    /\ Handled(u, Command(text), add_server_host(fsm[u], servers, text))

AddServerPort ==
  \E u \in Users, text \in Answers["port"] :
    /\ fsm[u].state = "port"
    /\ Handled(u, Command(text), add_server_port(fsm[u], servers, text))

AddServerUsername ==
  \E u \in Users, text \in Answers["username"] :
    /\ fsm[u].state = "username"
    /\ Handled(u, Command(text), add_server_username(fsm[u], servers, text))

\* the methods class SSHManager defines
SSHManagerMethods == {"__init__", "execute", "test_connection", "execute_multiple"}

\* the buttons of optimize_keyboard for the journal, for a stored server and
\* for one that was deleted since
JournalButtons == {"opt_journal:web1", "opt_journal:gone"}

\* cb_opt_journal.  ssh.connect() is a method SSHManager does not define:
\* calling it raises AttributeError, which the except clause turns into the
\* error text.
CbOptJournal ==
  \E u \in Users, data \in JournalButtons :
    LET Vacuum(ev) ==
          [command |-> "journalctl --vacuum-size=200M 2>&1", event |-> ev,
           result |-> RemoteExecute(ev)]
        Cleaned(call) ==
          /\ calls' = <<call>>
          /\ outbox' = <<Reply("cleaning", NoData),
                        IF call.result.success
                        THEN Reply("journal_cleaned", [stdout |-> call.result.stdout])
                        ELSE Reply("error", [stderr |-> call.result.stderr])>>
        Run(server) ==
          IF server = NoServer
          THEN calls' = <<>> /\ outbox' = <<Reply("not_found", NoData)>>
          ELSE IF "connect" \notin SSHManagerMethods
          THEN /\ calls' = <<>>
               /\ outbox' = <<Reply("cleaning", NoData),
                             Reply("error", [exc |-> "AttributeError"])>>
          ELSE \E ev \in AdHocEvents("remote") : Cleaned(Vacuum(ev))
    IN /\ Run(get_server(servers, SplitSep(data, ":")[2]))
       /\ update' = [Pressed(data) EXCEPT !.user = u]
       /\ UNCHANGED <<thresholds, transport, outage, pc, commands, results,
                      sessions, faults, report, raised, judged>>
       /\ UNCHANGED <<servers, fsm, job, tasks>>

NextBot ==
  \/ CmdStart \/ CmdAdd \/ CbAddServer
  \/ AddServerName \/ AddServerHost \/ AddServerPort \/ AddServerUsername
  \/ CbOptJournal

SpecBot == InitBot /\ [][NextBot]_vars

(***************************************************************************)
(* Properties                                                              *)
(***************************************************************************)
Judged == judged # NoJudgement
Returned == pc = "done" /\ raised = None
AllFailed == \A c \in DOMAIN results : ~results[c].success

\* v < k for a rational v and an integer k, by cross-multiplication
Below(v, k) == v.n < k * v.d

\* C1: under a pair (w, c) with c >= w of a configured kind, _get_status
\* gives ok exactly below w, warning exactly from w up to but excluding c,
\* and critical exactly from c on.
C1_Classification ==
  (Judged /\ judged.metric_type \in DOMAIN thresholds) =>
    LET th == thresholds[judged.metric_type]
        v == judged.value
    IN th.critical >= th.warning =>
         /\ judged.status = "ok" <=> Below(v, th.warning)
         /\ judged.status = "warning" <=> (~Below(v, th.warning) /\ Below(v, th.critical))
         /\ judged.status = "critical" <=> ~Below(v, th.critical)

\* ram {70, 85}: 85 has just been classified critical
C1_Witness ==
  /\ Judged
  /\ judged.metric_type = "ram"
  /\ thresholds["ram"] = [warning |-> 70, critical |-> 85]
  /\ judged.value = Rat(850, 10)
  /\ judged.status = "critical"

\* the statuses of every metric the report holds
StatusSet(r) ==
  {r.cpu_load.status, r.ram.status, r.swap.status, r.sessions.status}
    \cup {r.disks[i].status : i \in 1..Len(r.disks)}
    \cup (IF r.docker = NoMetric THEN {} ELSE {r.docker.status})
    \cup (IF r.journal_size = NoMetric THEN {} ELSE {r.journal_size.status})

\* C2: the overall status of a returned report is critical if some metric
\* of the report is critical, else warning if some is warning, else error
\* if some is error, else ok.
C2_Precedence ==
  Returned =>
    report.overall_status =
      (IF "critical" \in StatusSet(report) THEN "critical"
       ELSE IF "warning" \in StatusSet(report) THEN "warning"
       ELSE IF "error" \in StatusSet(report) THEN "error"
       ELSE "ok")

\* a report with an error metric, a warning metric and no critical one
C2_Witness ==
  /\ Returned
  /\ "error" \in StatusSet(report)
  /\ "warning" \in StatusSet(report)
  /\ "critical" \notin StatusSet(report)
  /\ report.overall_status = "warning"

\* C3: when every command of the catalog failed, collect returns a report
\* and does not raise, and the overall status of that report is error.
C3_TotalFailure ==
  (pc = "done" /\ AllFailed) =>
    /\ raised = None
    /\ report # NoReport
    /\ report.overall_status = "error"

\* the whole catalog was run and no command succeeded
C3_Witness ==
  /\ pc = "done"
  /\ DOMAIN results = CatalogCommands
  /\ AllFailed
  /\ report # NoReport

\* the command of a key of the catalog did not give a successful result
Failed(key) == ~Succeeded(results, key)

\* C4: after collect, the field that depends on a command that is absent or
\* failed keeps its sentinel: hostname, uptime and os_info are "unknown",
\* and cpu_load, ram, swap and sessions have status error.
C4_Sentinels ==
  Returned =>
    /\ Failed("hostname") => report.hostname = "unknown"
    /\ Failed("uptime") => report.uptime = "unknown"
    /\ Failed("os_info") => report.os_info = "unknown"
    /\ Failed("load_avg") => report.cpu_load.status = "error"
    /\ Failed("memory") => report.ram.status = "error" /\ report.swap.status = "error"
    /\ Failed("sessions") => report.sessions.status = "error"

\* C5: whatever text the successful commands returned, collect ends with a
\* report and propagates no exception of a parser.
C5_NoParseException == pc = "done" => raised = None /\ report # NoReport

\* C6: when collect returns a report and some command of the batch failed,
\* the errors list of the report is not empty.
C6_ErrorsRecorded ==
  Returned => \A c \in DOMAIN results : ~results[c].success => Len(report.errors) > 0

\* the failure modes of one command: anything but a run that exits with 0
FailureMode(ev) == ev.kind # "ran" \/ ev.exit # ExitOf(0)

\* C7: on either transport every call of execute returns a result, and for
\* every failure mode (timeout, connection or authentication failure,
\* non-zero exit, unexpected exception) the result has success false and a
\* populated error or a populated stderr.
C7_ErrorOrStderr ==
  \A i \in 1..Len(calls) :
    /\ ~IsExc(calls[i].result)
    /\ FailureMode(calls[i].event) =>
         /\ ~calls[i].result.success
         /\ calls[i].result.error # None \/ calls[i].result.stderr # ""

\* the last position of a command in the batch
LastCall(cmd) == CHOOSE i \in 1..Len(commands) :
                   commands[i] = cmd /\ \A j \in (i + 1)..Len(commands) : commands[j] # cmd

\* C8: execute_multiple calls execute on the commands in the order given,
\* and when it returns every command given was executed, failed ones
\* before it notwithstanding, and the map holds a result for each of them.
C8_Sequential ==
  /\ Len(calls) <= Len(commands)
  /\ \A i \in 1..Len(calls) : calls[i].command = commands[i]
  /\ pc = "returned" =>
       /\ Len(calls) = Len(commands)
       /\ DOMAIN results = {commands[i] : i \in 1..Len(commands)}
       /\ \A c \in DOMAIN results : results[c] = calls[LastCall(c)].result

\* a returned batch whose first command failed and whose second, a
\* different command, succeeded
C8_Witness ==
  /\ pc = "returned"
  /\ Len(commands) >= 2
  /\ commands[1] # commands[2]
  /\ ~calls[1].result.success
  /\ calls[2].result.success
  /\ Cardinality(DOMAIN results) = 2

\* C9: on the remote transport a batch whose commands all reached the host
\* opened exactly one SSH session, whatever the number of its commands.
C9_OneSession ==
  (/\ transport = "remote"
   /\ pc = "returned"
   /\ Len(commands) > 0
   /\ \A i \in 1..Len(calls) : calls[i].event.connected) => sessions = 1

\* C10: a command that exceeds the timeout gives a result with success
\* false, exit code -1 and a non-empty error, and the batch does not return
\* before the commands after it were executed.
C10_Timeout ==
  \A i \in 1..Len(calls) :
    calls[i].event.kind = "timeout" =>
      /\ ~calls[i].result.success
      /\ calls[i].result.exit_code = -1
      /\ calls[i].result.error # None
      /\ Len(calls[i].result.error) > 0
      /\ pc = "returned" => \A j \in (i + 1)..Len(commands) : calls[j].command = commands[j]

\* on each transport: the first command timed out and the second succeeded
C10_Witness ==
  /\ pc = "returned"
  /\ Len(calls) >= 2
  /\ calls[1].event.kind = "timeout"
  /\ calls[1].result.exit_code = -1
  /\ calls[2].result.success

\* C11: a result of execute has exit code -1 only after a transport-level
\* failure (timeout, connection failure, caught exception) and then carries
\* an error; a command that ran and ended never gives exit code -1.
C11_ReservedExitCode ==
  \A i \in 1..Len(calls) :
    calls[i].result.exit_code = -1 =>
      /\ calls[i].event.kind # "ran"
      /\ calls[i].result.error # None

\* only the command of this key failed
OnlyFailed(key) == \A k \in DOMAIN COMMANDS : Failed(k) <=> k = key

\* the result map with the result of the disk command replaced by that of a
\* successful run
WithDisk == [c \in DOMAIN results |->
               IF c = COMMANDS.disk THEN Execute(transport, NominalEvent("disk"))
               ELSE results[c]]

\* the fields of a report that no disk line feeds
DisklessFields ==
  {"server_name", "hostname", "uptime", "os_info", "cpu_load", "cpu_load_per_core",
   "ram", "swap", "sessions", "docker", "journal_size", "top_cpu_processes",
   "top_mem_processes", "errors"}

\* critical, else warning, else error, else ok over a set of statuses
Worst(S) ==
  IF "critical" \in S THEN "critical"
  ELSE IF "warning" \in S THEN "warning"
  ELSE IF "error" \in S THEN "error"
  ELSE "ok"

Parsed(parser) == judged # NoJudgement /\ "parser" \in DOMAIN judged /\ judged.parser = parser

\* critical from the critical level on, else warning from the warning level on
StatusUnder(pair, v) ==
  IF ~Below(v, pair.critical) THEN "critical"
  ELSE IF ~Below(v, pair.warning) THEN "warning"
  ELSE "ok"

\* what a line with this tag gives for an amount with total > 0
UsageOf(name, kind, a) ==
  Metric(name, Round(Rat(a.used * 100, a.total), 1), "%",
         StatusUnder(thresholds[kind], Rat(a.used * 100, a.total)),
         UsedOfTotal(a.used, a.total))

\* C13: _parse_memory gives, for a Mem: or Swap: line with total > 0, the
\* value used/total*100 rounded to one decimal with the status of that
\* percentage under the ram resp. swap pair; a Swap: line with total 0 gives
\* the ok metric with the no-swap detail; and total 0 raises nothing.
C13_MemoryPercent ==
  Parsed("memory") =>
    /\ ~IsExc(judged.out)
    /\ judged.mem.total > 0 => judged.out.ram = UsageOf("RAM", "ram", judged.mem)
    /\ judged.swap.total > 0 => judged.out.swap = UsageOf("Swap", "swap", judged.swap)
    /\ judged.swap.total = 0 =>
         judged.out.swap = Metric("Swap", RatInt(0), "%", "ok", Text("No swap"))

\* "Mem: 1000 500 500" under ram {70, 85} gave 50.0 and ok, next to a
\* Swap: line with total 0
C13_Witness ==
  /\ Parsed("memory")
  /\ thresholds = DefaultThresholds
  /\ judged.mem = [total |-> 1000, used |-> 500]
  /\ judged.swap.total = 0
  /\ judged.out.ram.value = Rat(500, 10)
  /\ judged.out.ram.status = "ok"
  /\ judged.out.swap.status = "ok"

\* a df line that the disk parser is to turn into a Metric
Qualifies(line) == line.fields >= 5 /\ line.pcent # <<>>

\* C14: _parse_disk returns one Metric, in the order of the output, for
\* each line that begins with "/", has at least 5 fields and a numeric
\* percentage, and skips every other line.
C14_OneMetricPerLine ==
  Parsed("disk") =>
    /\ ~IsExc(judged.out)
    /\ Len(judged.out.disks) = Len(SelectSeq(judged.lines, Qualifies))
    /\ \A i \in 1..Len(judged.out.disks) :
         judged.out.disks[i].name = "Disk " \o SelectSeq(judged.lines, Qualifies)[i].first

\* the size of a token in units of 1024^power bytes (power 3: GB, 2: MB);
\* 0 for a text that is no number
RECURSIVE Pow1024(_)
Pow1024(k) == IF k = 0 THEN 1 ELSE 1024 * Pow1024(k - 1)

SuffixPower(s) ==
  CASE s = "" -> 0 [] s = "K" -> 1 [] s = "M" -> 2 [] s = "G" -> 3 [] s = "T" -> 4

SizeIn(token, power) ==
  IF token.number = <<>> THEN RatInt(0)
  ELSE IF SuffixPower(token.suffix) >= power
  THEN Norm(Rat(token.number[1].n * Pow1024(SuffixPower(token.suffix) - power),
                token.number[1].d))
  ELSE Norm(Rat(token.number[1].n,
                token.number[1].d * Pow1024(power - SuffixPower(token.suffix))))

\* C15: for a number followed by no suffix or by K, M, G or T, with or
\* without a trailing B, _parse_size_to_gb returns the size in GB and
\* _parse_journal computes the size in MB; a text that is no number gives 0.
C15_SizeNormalised ==
  /\ Parsed("size") => judged.out = SizeIn(judged.token, 3)
  /\ Parsed("journal") =>
       /\ ~IsExc(judged.out)
       /\ Norm(judged.out.journal_size.details.size_mb) = SizeIn(judged.token, 2)

\* critical from c on, warning from w up to c, else ok, for a rational v
\* and whole numbers w and c
Level(v, w, c) ==
  IF ~Below(v, c) THEN "critical" ELSE IF ~Below(v, w) THEN "warning" ELSE "ok"

RECURSIVE TotalGb(_, _)
TotalGb(sizes, i) ==
  IF i > Len(sizes) THEN RatInt(0) ELSE RatAdd(sizes[i].gb, TotalGb(sizes, i + 1))

CoresUsed == IF judged.cores = <<>> THEN 1 ELSE judged.cores[1]

\* 1-minute load / core count, for a core count above 0
LoadPerCore == Rat(judged.load[1].n, judged.load[1].d * CoresUsed)

\* the load block assigned the cpu metric
LoadAssigned == ~IsExc(judged.out) /\ "cpu_load" \in DOMAIN judged.out

NamesInOrder(r) ==
  <<"CPU Load", "RAM", "Swap">> \o [i \in 1..Len(r.disks) |-> r.disks[i].name]
    \o <<"Sessions", "Docker", "Journal">>

\* the place of a name in that order, 0 for a name that is not in it
PlaceOf(r, name) ==
  IF \E i \in 1..Len(NamesInOrder(r)) : NamesInOrder(r)[i] = name
  THEN CHOOSE i \in 1..Len(NamesInOrder(r)) :
         NamesInOrder(r)[i] = name /\ \A j \in 1..(i - 1) : NamesInOrder(r)[j] # name
  ELSE 0

\* every entry is about a metric of the report and the entries follow the
\* order of the metrics
InOrder(r, entries) ==
  /\ \A i \in 1..Len(entries) : PlaceOf(r, entries[i].about) > 0
  /\ \A i, j \in 1..Len(entries) :
       i < j => PlaceOf(r, entries[i].about) < PlaceOf(r, entries[j].about)

\* C18: the issues of a returned report, and likewise its recommendations,
\* follow the order CPU load, RAM, swap, each disk in report order,
\* sessions, docker, journal, and hold nothing that is not about one of
\* these metrics.
C18_EvaluationOrder ==
  Returned => InOrder(report, report.issues) /\ InOrder(report, report.recommendations)

\* issues about RAM, then swap, then two disks
C18_Witness ==
  /\ Returned
  /\ Len(report.issues) >= 4
  /\ Len(report.recommendations) >= 2
  /\ report.issues[1].about = "RAM"
  /\ report.issues[2].about = "Swap"
  /\ report.issues[4].about = "Disk /var"

\* every metric of a report, the optional ones when present
MetricsOf(r) ==
  <<r.cpu_load, r.ram, r.swap, r.sessions>> \o r.disks
    \o (IF r.docker = NoMetric THEN <<>> ELSE <<r.docker>>)
    \o (IF r.journal_size = NoMetric THEN <<>> ELSE <<r.journal_size>>)

\* how many metrics of a report have a status of the set
CountOf(r, S) == Cardinality({i \in 1..Len(MetricsOf(r)) : MetricsOf(r)[i].status \in S})

\* how many entries are about the metric of this name
About(entries, name) == Cardinality({i \in 1..Len(entries) : entries[i].about = name})

\* C19: in a returned report every warning or critical metric has exactly
\* one issue, every critical metric has exactly one recommendation, and ok
\* and error metrics have neither: there are as many issues as warning or
\* critical metrics and as many recommendations as critical metrics.
C19_OneEntryPerMetric ==
  Returned =>
    /\ Len(report.issues) = CountOf(report, {"warning", "critical"})
    /\ Len(report.recommendations) = CountOf(report, {"critical"})
    /\ \A i \in 1..Len(MetricsOf(report)) :
         /\ About(report.issues, MetricsOf(report)[i].name) =
              (IF MetricsOf(report)[i].status \in {"warning", "critical"} THEN 1 ELSE 0)
         /\ About(report.recommendations, MetricsOf(report)[i].name) =
              (IF MetricsOf(report)[i].status = "critical" THEN 1 ELSE 0)

\* disk / at 85% under disk {70, 85}: a critical metric, an issue and a
\* recommendation naming it, next to a warning disk with an issue only
C19_Witness ==
  /\ Returned
  /\ thresholds = DefaultThresholds
  /\ Len(report.disks) = 2
  /\ report.disks[1] = Metric("Disk /", Rat(85, 1), "%", "critical", UsedOfTotal(850, 1000))
  /\ report.disks[2].status = "warning"
  /\ report.issues = <<[level |-> "critical", about |-> "Disk /", value |-> Rat(85, 1)],
                       [level |-> "warning", about |-> "Disk /var", value |-> Rat(70, 1)]>>
  /\ report.recommendations = <<[about |-> "Disk /"]>>
  /\ report.overall_status = "critical"

AllStatuses == {"ok", "warning", "critical", "error"}

\* the docker command gave an output other than NO_DOCKER
DockerSeen == Succeeded(results, "docker") /\ ~Contains(Stdout(results, "docker"), "NO_DOCKER")

\* C20: in a returned report every metric status and the overall status are
\* among ok, warning, critical and error; the docker metric is present
\* exactly when the docker command succeeded with an output other than
\* NO_DOCKER and the journal metric exactly when its command succeeded; and
\* the overall status is the worst of the statuses of the metrics present,
\* the optional ones included.
C20_OverallFromMetrics ==
  Returned =>
    /\ \A i \in 1..Len(MetricsOf(report)) : MetricsOf(report)[i].status \in AllStatuses
    /\ report.overall_status \in AllStatuses
    /\ report.docker # NoMetric <=> DockerSeen
    /\ report.journal_size # NoMetric <=> Succeeded(results, "journal")
    /\ report.overall_status =
         Worst({MetricsOf(report)[i].status : i \in 1..Len(MetricsOf(report))})

\* docker alone is critical and makes the report critical
C20_Witness ==
  /\ Returned
  /\ DockerSeen
  /\ report.docker.status = "critical"
  /\ CountOf(report, {"critical", "warning", "error"}) = 1
  /\ report.overall_status = "critical"

\* how many calls of execute were made with this command
TimesExecuted(cmd) == Cardinality({i \in 1..Len(calls) : calls[i].command = cmd})

\* C21: within one collect the commands handed to execute_multiple are
\* executed in one pass: while the batch runs no command of the catalog has
\* been executed more than once, whatever its result, and when collect ends
\* every command of the catalog has been executed exactly once.
C21_ExecutedOnce ==
  /\ pc \in {"batch", "done"} => \A cmd \in CatalogCommands : TimesExecuted(cmd) <= 1
  /\ pc = "done" =>
       /\ Len(calls) = Len(CommandKeys)
       /\ \A cmd \in CatalogCommands : TimesExecuted(cmd) = 1

\* collect ended after one command timed out and another printed nothing
C21_Witness ==
  /\ pc = "done"
  /\ \E i \in 1..Len(calls) :
       /\ calls[i].event = FailEvent("timeout", FALSE)
       /\ ~calls[i].result.success
       /\ TimesExecuted(calls[i].command) = 1
  /\ \E i \in 1..Len(calls) : calls[i].result.success /\ calls[i].event.stdout = ""

\* C24: every pair of the table the classifier works with has critical >=
\* warning, and no value of a configured kind is classified critical while
\* it is below the warning threshold of its kind.
C24_CriticalAboveWarning ==
  /\ \A k \in DOMAIN thresholds : thresholds[k].critical >= thresholds[k].warning
  /\ (Judged /\ judged.metric_type \in DOMAIN thresholds /\ judged.status = "critical") =>
       ~Below(judged.value, thresholds[judged.metric_type].warning)

\* C27: every result execute has returned, on either transport, has
\* success true exactly when its exit code is 0.
C27_SuccessIffZero ==
  \A i \in 1..Len(calls) : calls[i].result.success <=> calls[i].result.exit_code = 0

\* the dict execute_multiple of task t would return had the task run alone
\* and met the events it has met
AloneResults(t) ==
  [cmd \in CatalogCommands |->
     Execute(TaskKinds[t],
             tasks[t].events[CHOOSE i \in 1..Len(CommandList) : CommandList[i] = cmd])]

\* C22: however the steps of two collects on distinct transports
\* interleave, the settings are left as they were and each collect ends
\* with the report (or the exception) it would have ended with alone, given
\* the same command results.
C22_Isolation ==
  \A t \in DOMAIN tasks :
    tasks[t].pc = "done" =>
      /\ tasks[t].outcome = Collect(thresholds, "srv" \o ToString(t), AloneResults(t))
      /\ tasks[t].thresholds = thresholds

\* the first collect has ended with a loaded memory while the second, on a
\* healthy host, is in the middle of its batch
C22_Witness ==
  /\ tasks[1].pc = "done" /\ ~IsExc(tasks[1].outcome)
  /\ tasks[1].outcome.ram.status = "critical"
  /\ tasks[1].outcome.server_name = "srv1"
  /\ tasks[2].pc = "batch"
  /\ Len(tasks[2].events) = 7
  /\ tasks[2].results[COMMANDS["memory"]].stdout = NominalStdout["memory"]

\* the entries a text shows on its lines of one kind, in the order of the text
Shown(lines, kind) ==
  LET Picked(sel) == [i \in 1..Len(sel) |-> sel[i].shows]
      OfKind(l) == l.line = kind
  IN Picked(SelectSeq(lines, OfKind))

\* the first n entries of a list, or all of them when it has fewer
FirstOf(entries, n) == [i \in 1..(IF Len(entries) < n THEN Len(entries) ELSE n) |-> entries[i]]

GaveReport(outcome) == ~IsExc(outcome) \/ "report" \in DOMAIN outcome
ReportOf(outcome) == IF "report" \in DOMAIN outcome THEN outcome.report ELSE outcome

\* the places in the outbox of the messages of one kind about one server
Sent(kind, name) ==
  {k \in 1..Len(outbox) :
     outbox[k].kind = kind /\ outbox[k].text[1].shows.server_name = name}

\* C25: in quick_alert_check, for every server whose check gave a report,
\* the stored last_status becomes the overall status of the report; when
\* the report is critical and the status stored before was not, exactly
\* one status-change alert listing the issues of the report goes to the
\* admin; when the status stored before was critical, none does.
C25_AlertOnChange ==
  job.name = "quick_alert_check" =>
    \A i \in 1..Len(job.outcomes) :
      GaveReport(job.outcomes[i]) =>
        LET Holds(server, r) ==
              /\ servers[server.name].last_status = r.overall_status
              /\ (r.overall_status = "critical" /\ server.last_status # "critical") =>
                   /\ Cardinality(Sent("status_change", server.name)) = 1
                   /\ \A k \in Sent("status_change", server.name) :
                        /\ outbox[k].chat_id = "admin_id"
                        /\ \A j \in 1..Len(r.issues) :
                             \E l \in 1..Len(outbox[k].text) :
                               outbox[k].text[l] = Line("issue", r.issues[j])
              /\ server.last_status = "critical" =>
                   Sent("status_change", server.name) = {}
        IN Holds(job.servers[i], ReportOf(job.outcomes[i]))

\* the critical reports among the checks that returned, in the order of the loop
CriticalOutcomes ==
  LET IsCritical(o) == ~IsExc(o) /\ o.overall_status = "critical"
  IN SelectSeq(job.outcomes, IsCritical)

\* C26: when scheduled_health_check ends, a check has been attempted for
\* every active server, also after a check that raised; the stored
\* last_status of every server whose check returned is the overall status
\* of its report and that of a server whose check raised is as before; and
\* the messages sent are the summary (when a check returned) followed by
\* one critical alert for each critical report and for no other.
C26_ScheduledCheck ==
  (job.name = "scheduled_health_check" /\ job.pc = "done") =>
    /\ Len(job.outcomes) = Len(job.servers)
    /\ [i \in 1..Len(job.servers) |-> job.servers[i].name]
         = [i \in 1..Len(get_all_servers(servers)) |-> get_all_servers(servers)[i].name]
    /\ \A i \in 1..Len(job.outcomes) :
         servers[job.servers[i].name].last_status =
           (IF IsExc(job.outcomes[i]) THEN job.servers[i].last_status
            ELSE job.outcomes[i].overall_status)
    /\ LET returned == \E i \in 1..Len(job.outcomes) : ~IsExc(job.outcomes[i])
           first == IF returned THEN 1 ELSE 0
       IN /\ Len(outbox) = first + Len(CriticalOutcomes)
          /\ returned => outbox[1].kind = "summary"
          /\ \A k \in 1..Len(CriticalOutcomes) :
               /\ outbox[first + k].kind = "critical_alert"
               /\ outbox[first + k].chat_id = "admin_id"
               /\ outbox[first + k].text[1].shows.server_name = CriticalOutcomes[k].server_name

\* the check of alpha raised, the check of beta found a critical host: the
\* summary and one alert about beta were sent, beta is stored critical
C26_Witness ==
  /\ job.name = "scheduled_health_check" /\ job.pc = "done"
  /\ Len(job.servers) = 2
  /\ IsExc(job.outcomes[1])
  /\ ~IsExc(job.outcomes[2]) /\ job.outcomes[2].overall_status = "critical"
  /\ job.servers[1].last_status = "ok" /\ servers["alpha"].last_status = "ok"
  /\ job.servers[2].last_status = "ok" /\ servers["beta"].last_status = "critical"
  /\ Len(outbox) = 2
  /\ outbox[2].kind = "critical_alert"
  /\ outbox[2].text[1].shows.server_name = "beta"

\* the update handled in this step is a message of user u that goes to the
\* handler of the dialogue state (the commands go to their own handlers)
Answered(u) ==
  /\ update'.user = u
  /\ update'.kind = "message"
  /\ update'.text \notin {"/start", "/add"}

\* C28: in every step of the bot, for every user: the dialogue state moves
\* to host only from name, to port only from host, to username only from
\* port, and is cleared only from username (it may be set to name from
\* anywhere); the table changes only by the insert of the username step,
\* with the name, host and port the earlier steps stored; an existing
\* name at the name step and a non-numeric port at the port step leave
\* dialogue and table as they were; and at the username step the dialogue
\* is cleared exactly when the row was inserted, otherwise it stays.
C28_Dialogue ==
  [][\A u \in Users :
       /\ fsm'[u].state # fsm[u].state =>
            \/ fsm'[u].state = "name"
            \/ fsm[u].state = "name" /\ fsm'[u].state = "host"
            \/ fsm[u].state = "host" /\ fsm'[u].state = "port"
            \/ fsm[u].state = "port" /\ fsm'[u].state = "username"
            \/ fsm[u].state = "username" /\ fsm'[u].state = None
       /\ (servers' # servers /\ update'.user = u) =>
            /\ Answered(u) /\ fsm[u].state = "username"
            /\ fsm[u].data["name"] \notin DOMAIN servers
            /\ DOMAIN servers' = DOMAIN servers \cup {fsm[u].data["name"]}
            /\ \A n \in DOMAIN servers : servers'[n] = servers[n]
            /\ servers'[fsm[u].data["name"]].name = fsm[u].data["name"]
            /\ servers'[fsm[u].data["name"]].host = fsm[u].data["host"]
            /\ servers'[fsm[u].data["name"]].port = fsm[u].data["port"]
       /\ (Answered(u) /\ fsm[u].state = "name" /\ Strip(update'.text) \in DOMAIN servers) =>
            fsm' = fsm /\ servers' = servers
       /\ (Answered(u) /\ fsm[u].state = "port" /\ update'.text # "/skip"
             /\ IsExc(PyInt(update'.text))) =>
            fsm' = fsm /\ servers' = servers
       /\ (Answered(u) /\ fsm[u].state = "username") =>
            /\ fsm'[u] = Cleared <=> servers' # servers
            /\ servers' = servers => fsm'[u] = fsm[u]
    ]_vars

\* the admin has gone through the four steps: the row holds what the steps
\* stored and the dialogue is cleared
C28_Witness ==
  /\ update.kind = "message" /\ update.user = "admin_id" /\ update.text = " admin "
  /\ "db2" \in DOMAIN servers
  /\ servers["db2"].host = "10.0.0.2"
  /\ servers["db2"].port = 2222
  /\ servers["db2"].username = "admin"
  /\ fsm["admin_id"] = Cleared
  /\ Len(outbox) = 1 /\ outbox[1].kind = "server_added"

\* C29: a user other than the admin is never in the add-server dialogue.
C29_AdminOnly ==
  \A u \in Users \ {"admin_id"} : fsm[u].state = None

\* C30: after cb_opt_journal was handled for a server the table holds, the
\* vacuum command has been executed once through the transport, and the
\* text left in the message is the success text when the result has
\* success true and the error text otherwise.
C30_JournalCleanup ==
  (update.kind = "callback_query" /\ update.text \in JournalButtons
     /\ SplitSep(update.text, ":")[2] \in DOMAIN servers) =>
    /\ Len(calls) = 1
    /\ calls[1].command = "journalctl --vacuum-size=200M 2>&1"
    /\ outbox[Len(outbox)].kind =
         (IF calls[1].result.success THEN "journal_cleaned" ELSE "error")

====
